---- MODULE Spec2Model ----
(***************************************************************************)
(* Shader-object validation of the Vulkan validation layers                *)
(* (layers/core_checks/cc_shader_object.cpp): creation-time linking        *)
(* checks, bind-time checks and draw-time checks.                          *)
(*                                                                         *)
(* Representation.  A VkShaderStageFlags / VkShaderStageFlagBits value is  *)
(* the set of the names of its bits, so a & b is \cap, a & ~b is \ ,       *)
(* (a & b) != 0 is a \cap b # {} and 0 is {}.  VkShaderCreateFlagsEXT is   *)
(* the set of the names of its flag bits.  Array positions are 1-based     *)
(* (pCreateInfos[i] of the code is pCreateInfos[i + 1] here), and the      *)
(* code's "invalid" index (one past the end) is Len + 1.  Every LogError   *)
(* call appends one record [vuid, loc, args] to the message list: vuid is  *)
(* the number of the VUID, loc the array position the Location names (0    *)
(* for a message located at the call itself) and args the tuple of the     *)
(* array positions the message text prints.                                *)
(***************************************************************************)
EXTENDS Integers, Sequences, FiniteSets, TLC

VARIABLES
    pc,                 \* "call": the intercepted call is pending; "done": it was validated
    api,                \* which call is intercepted: "CreateShaders", "BindShaders", "Draw"
    enabled_features,   \* the device's enabled features
    pCreateInfos,       \* vkCreateShadersEXT: the array of VkShaderCreateInfoEXT
    shader_objects,     \* the vvl::ShaderObject states, by VkShaderEXT handle
    pStages,            \* vkCmdBindShadersEXT: the array of stages
    pShaders,           \* vkCmdBindShadersEXT: the array of handles, <<>> for a null pointer
    queue_flags,        \* queue_flags of the command pool of the command buffer
    last_bound,         \* draw: LastBound of the graphics bind point of the command buffer
    dynamic_rendering,  \* draw: cb_state.activeRenderPass->UsesDynamicRendering()
    function,           \* draw: vuid.function, the draw command that is validated
    msgs,               \* the messages LogError was called with, in call order
    debugUtilsQueueLabels,   \* report_data: the LoggingLabelState of each queue that has one
    debugUtilsCmdBufLabels,  \* report_data: the same of each command buffer that has one
    label_calls         \* the debug-label calls made so far, and whether each changed the maps

vars == <<pc, api, enabled_features, pCreateInfos, shader_objects, pStages, pShaders,
          queue_flags, last_bound, dynamic_rendering, function, msgs,
          debugUtilsQueueLabels, debugUtilsCmdBufLabels, label_calls>>

labelVars == <<debugUtilsQueueLabels, debugUtilsCmdBufLabels, label_calls>>

----------------------------------------------------------------------------
(* Bounds *)

\* the longest pCreateInfos of the linking calls
MaxCreateInfos == 2

\* the longest pPushConstantRanges and pSetLayouts of the draws
MaxRanges == 2

\* the longest pCreateInfos of the calls that mix linked and other stages
MaxMixedInfos == 3

\* the longest pCreateInfos of the calls validated twice
MaxRepeatedInfos == 2

\* the longest pStages of the bind calls over every stage value
MaxEveryStageCount == 2

\* the most debug-label calls of one run
MaxLabelCalls == 4

\* the longest pStages of the bind calls that repeat stages
MaxRepeatedStages == 3

\* the longest pStages of the bind calls
MaxStageCount == 2

\* the longest pCreateInfos of the tessellation calls
MaxTessInfos == 2

\* the longest pCreateInfos of the next-stage calls
MaxNextStageInfos == 1

----------------------------------------------------------------------------
(* Stages *)

VERTEX   == {"VERTEX"}
TESC     == {"TESSELLATION_CONTROL"}
TESE     == {"TESSELLATION_EVALUATION"}
GEOMETRY == {"GEOMETRY"}
FRAGMENT == {"FRAGMENT"}
COMPUTE  == {"COMPUTE"}
TASK     == {"TASK"}
MESH     == {"MESH"}

NoStage == {}

\* the ray tracing stages, kShaderStageAllRayTracing
RAYGEN       == {"RAYGEN"}
ANY_HIT      == {"ANY_HIT"}
CLOSEST_HIT  == {"CLOSEST_HIT"}
MISS         == {"MISS"}
INTERSECTION == {"INTERSECTION"}
CALLABLE     == {"CALLABLE"}
kShaderStageAllRayTracing ==
    RAYGEN \cup ANY_HIT \cup CLOSEST_HIT \cup MISS \cup INTERSECTION \cup CALLABLE

SUBPASS_SHADING_HUAWEI  == {"SUBPASS_SHADING_HUAWEI"}
CLUSTER_CULLING_HUAWEI  == {"CLUSTER_CULLING_HUAWEI"}

\* VK_SHADER_STAGE_ALL_GRAPHICS (0x1F) and VK_SHADER_STAGE_ALL (every bit)
ALL_GRAPHICS == {"VERTEX", "TESSELLATION_CONTROL", "TESSELLATION_EVALUATION", "GEOMETRY",
                 "FRAGMENT"}
ALL == ALL_GRAPHICS \cup {"COMPUTE", "TASK", "MESH"} \cup kShaderStageAllRayTracing
       \cup SUBPASS_SHADING_HUAWEI \cup CLUSTER_CULLING_HUAWEI

VK_NULL_HANDLE == 0

\* the stages vkCreateShadersEXT and vkCmdBindShadersEXT accept
ShaderObjectStages == {VERTEX, TESC, TESE, GEOMETRY, FRAGMENT, COMPUTE, TASK, MESH}

graphicsStages == <<VERTEX, TESC, TESE, GEOMETRY, FRAGMENT>>
meshStages     == <<TASK, MESH, FRAGMENT>>

\* the mask without its last bit
GraphicsStageMask_NoFragment == VERTEX \cup TESC \cup TESE \cup GEOMETRY

TaskMeshStageMask_MeshOnly == MESH

GraphicsStageMask == VERTEX \cup TESC \cup TESE \cup GEOMETRY \cup FRAGMENT
TaskMeshStageMask == TASK \cup MESH

----------------------------------------------------------------------------
(* Logging *)

Msg(vuid, loc, args) == [vuid |-> vuid, loc |-> loc, args |-> args]

\* a variant that drops a message whose VUID the sink already holds
LogErrorIf_OncePerVuid(cond, vuid, loc, args) ==
    IF cond /\ ~(\E k \in 1..Len(msgs) : msgs[k].vuid = vuid)
    THEN <<Msg(vuid, loc, args)>> ELSE <<>>

\* skip |= LogError(...) under the condition of the enclosing if
LogErrorIf(cond, vuid, loc, args) == IF cond THEN <<Msg(vuid, loc, args)>> ELSE <<>>

RECURSIVE CountMsgs(_, _)
CountMsgs(ms, vuids) ==
    IF ms = <<>> THEN 0
    ELSE (IF Head(ms).vuid \in vuids THEN 1 ELSE 0) + CountMsgs(Tail(ms), vuids)

HasMsg(ms, vuid) == \E k \in 1..Len(ms) : ms[k].vuid = vuid

----------------------------------------------------------------------------
(* FindNextStage *)

graphicsStagesCount == 5
meshStagesCount == 3

\* the for loop that looks the stage up in both chains at once; an index one
\* past the end of a chain means "not in that chain"
RECURSIVE FindStageIndex(_, _)
FindStageIndex(stage, i) ==
    IF i > graphicsStagesCount
    THEN [graphicsIndex |-> graphicsStagesCount + 1, meshIndex |-> meshStagesCount + 1]
    ELSE IF graphicsStages[i] = stage
    THEN [graphicsIndex |-> i, meshIndex |-> meshStagesCount + 1]
    ELSE IF i <= meshStagesCount /\ meshStages[i] = stage
    THEN [graphicsIndex |-> graphicsStagesCount + 1, meshIndex |-> i]
    ELSE FindStageIndex(stage, i + 1)

\* while (++index < count): the first stage of the chain at or after position
\* index that is the stage of some create info, 0 when there is none
RECURSIVE FirstPresentStage(_, _, _)
FirstPresentStage(infos, chain, index) ==
    IF index > Len(chain) THEN NoStage
    ELSE IF \E i \in 1..Len(infos) : infos[i].stage = chain[index] THEN chain[index]
    ELSE FirstPresentStage(infos, chain, index + 1)

\* a walk that looks at the stage right after the given one only
FindNextStage_NoSkip(infos, stage) ==
    LET ix == FindStageIndex(stage, 1)
        chain == IF ix.graphicsIndex <= graphicsStagesCount THEN graphicsStages ELSE meshStages
        index == IF ix.graphicsIndex <= graphicsStagesCount
                 THEN ix.graphicsIndex + 1 ELSE ix.meshIndex + 1
    IN  IF index <= Len(chain) /\ \E i \in 1..Len(infos) : infos[i].stage = chain[index]
        THEN chain[index]
        ELSE NoStage

FindNextStage(infos, stage) ==
    LET ix == FindStageIndex(stage, 1)
    IN  IF ix.graphicsIndex <= graphicsStagesCount
        THEN FirstPresentStage(infos, graphicsStages, ix.graphicsIndex + 1)
        ELSE FirstPresentStage(infos, meshStages, ix.meshIndex + 1)

----------------------------------------------------------------------------
(* CoreChecks::ValidateCreateShadersLinking *)

\* the inner loop without its i != j test
RECURSIVE DuplicateLinkedStage_WithSelf(_, _, _)
DuplicateLinkedStage_WithSelf(infos, i, j) ==
    IF j > Len(infos) THEN <<>>
    ELSE LogErrorIf(infos[i].stage = infos[j].stage, 8410, i, <<j>>)
         \o DuplicateLinkedStage_WithSelf(infos, i, j + 1)

\* the messages of the inner loop  for (j = i; j < createInfoCount; ++j)
RECURSIVE DuplicateLinkedStage(_, _, _)
DuplicateLinkedStage(infos, i, j) ==
    IF j > Len(infos) THEN <<>>
    ELSE LogErrorIf(i # j /\ infos[i].stage = infos[j].stage, 8410, i, <<j>>)
         \o DuplicateLinkedStage(infos, i, j + 1)

\* if (flags & LINK_STAGE): the next stage of a linked stage and the
\* duplicates of a linked stage
LinkedStageMsgs(infos, i) ==
    LET create_info == infos[i]
        nextStage == FindNextStage(infos, create_info.stage)
    IN  IF "LINK_STAGE" \in create_info.flags
        THEN LogErrorIf(nextStage # NoStage /\ create_info.nextStage # nextStage, 8409, i, <<>>)
             \o DuplicateLinkedStage(infos, i, i)
        ELSE <<>>

\* nextStage against the allowed next stages of each stage
NextStageMaskMsgs_TeseFragmentOnly(create_info, i) ==
    LET stage == create_info.stage
        nextStage == create_info.nextStage
    IN  LogErrorIf(stage = TESC /\ nextStage \ TESE # {}, 8430, i, <<>>)
        \o LogErrorIf(stage = TESE /\ nextStage \ FRAGMENT # {}, 8431, i, <<>>)
        \o LogErrorIf(stage = GEOMETRY /\ nextStage \ FRAGMENT # {}, 8433, i, <<>>)
        \o LogErrorIf((stage = FRAGMENT \/ stage = COMPUTE) /\ nextStage # {}, 8434, i, <<>>)
        \o LogErrorIf(stage = TASK /\ nextStage \ MESH # {}, 8435, i, <<>>)
        \o LogErrorIf(stage = MESH /\ nextStage \ FRAGMENT # {}, 8436, i, <<>>)

NextStageMaskMsgs(create_info, i) ==
    LET stage == create_info.stage
        nextStage == create_info.nextStage
    IN  LogErrorIf(stage = TESC /\ nextStage \ TESE # {}, 8430, i, <<>>)
        \o LogErrorIf(stage = TESE /\ nextStage \ (GEOMETRY \cup FRAGMENT) # {}, 8431, i, <<>>)
        \o LogErrorIf(stage = GEOMETRY /\ nextStage \ FRAGMENT # {}, 8433, i, <<>>)
        \o LogErrorIf((stage = FRAGMENT \/ stage = COMPUTE) /\ nextStage # {}, 8434, i, <<>>)
        \o LogErrorIf(stage = TASK /\ nextStage \ MESH # {}, 8435, i, <<>>)
        \o LogErrorIf(stage = MESH /\ nextStage \ FRAGMENT # {}, 8436, i, <<>>)

\* the messages one iteration of the loop over pCreateInfos logs
CreateInfoMsgs(infos, ef, i) ==
    LET create_info == infos[i]
        stage == create_info.stage
        nextStage == create_info.nextStage
        flags == create_info.flags
    IN  (IF stage = TESC \/ stage = TESE
         THEN LogErrorIf(~ef.tessellationShader, 8419, i, <<>>)
         ELSE IF stage = GEOMETRY
         THEN LogErrorIf(~ef.geometryShader, 8420, i, <<>>)
         ELSE IF stage = TASK
         THEN LogErrorIf(~ef.taskShader, 8421, i, <<>>)
         ELSE IF stage = MESH
         THEN LogErrorIf(~ef.meshShader, 8422, i, <<>>)
         ELSE <<>>)
        \o LogErrorIf("FRAGMENT_SHADING_RATE_ATTACHMENT" \in flags
                      /\ ~ef.attachmentFragmentShadingRate, 8487, i, <<>>)
        \o LogErrorIf("FRAGMENT_DENSITY_MAP_ATTACHMENT" \in flags
                      /\ ~ef.fragmentDensityMap, 8489, i, <<>>)
        \o LinkedStageMsgs(infos, i)
        \o LogErrorIf(~ef.tessellationShader /\ (nextStage = TESC \/ nextStage = TESE),
                      8428, i, <<>>)
        \o LogErrorIf(~ef.geometryShader /\ nextStage = GEOMETRY, 8429, i, <<>>)
        \o NextStageMaskMsgs(create_info, i)
        \o LogErrorIf("ALLOW_VARYING_SUBGROUP_SIZE" \in flags /\ ~ef.subgroupSizeControl,
                      9404, i, <<>>)
        \o LogErrorIf("REQUIRE_FULL_SUBGROUPS" \in flags /\ ~ef.computeFullSubgroups,
                      9405, i, <<>>)

\* variants of the index variables: the stages that set linked_task_mesh_stage
\* and whether linked_mesh_no_task_stage asks for the NO_TASK_SHADER flag
CreateInfoIndices_With(infos, i, st, taskMeshStages, needNoTask) ==
    LET create_info == infos[i]
        stage == create_info.stage
        flags == create_info.flags
    IN  IF "LINK_STAGE" \in flags
        THEN [st EXCEPT
                !.linked_stage = i,
                !.linked_vert_stage = IF stage \cap VERTEX # {} THEN i ELSE @,
                !.linked_task_mesh_stage =
                    IF stage \cap VERTEX = {} /\ stage \cap taskMeshStages # {} THEN i ELSE @,
                !.linked_task_stage =
                    IF stage \cap VERTEX = {} /\ stage \cap TASK # {} THEN i ELSE @,
                !.linked_mesh_no_task_stage =
                    IF stage \cap (VERTEX \cup TASK) = {} /\ stage \cap MESH # {}
                       /\ (needNoTask => "NO_TASK_SHADER" \in flags)
                    THEN i ELSE @,
                !.linked_spirv_index = IF create_info.codeType = "SPIRV" THEN i ELSE @,
                !.linked_binary_index = IF create_info.codeType = "BINARY" THEN i ELSE @]
        ELSE IF stage \cap (VERTEX \cup TESC \cup TESE \cup GEOMETRY \cup FRAGMENT) # {}
        THEN [st EXCEPT !.non_linked_graphics_stage = i]
        ELSE IF stage \cap (TASK \cup MESH) # {}
        THEN [st EXCEPT !.non_linked_task_mesh_stage = i]
        ELSE st

CreateInfoIndices_TaskOnly(infos, i, st) ==
    CreateInfoIndices_With(infos, i, st, TASK, TRUE)

CreateInfoIndices_AnyMesh(infos, i, st) ==
    CreateInfoIndices_With(infos, i, st, TASK \cup MESH, FALSE)

\* the index variables one iteration of the loop over pCreateInfos assigns
CreateInfoIndices(infos, i, st) ==
    LET create_info == infos[i]
        stage == create_info.stage
        flags == create_info.flags
    IN  IF "LINK_STAGE" \in flags
        THEN [st EXCEPT
                !.linked_stage = i,
                !.linked_vert_stage = IF stage \cap VERTEX # {} THEN i ELSE @,
                !.linked_task_mesh_stage =
                    IF stage \cap VERTEX = {} /\ stage \cap (TASK \cup MESH) # {} THEN i ELSE @,
                !.linked_task_stage =
                    IF stage \cap VERTEX = {} /\ stage \cap TASK # {} THEN i ELSE @,
                !.linked_mesh_no_task_stage =
                    IF stage \cap (VERTEX \cup TASK) = {} /\ stage \cap MESH # {}
                       /\ "NO_TASK_SHADER" \in flags
                    THEN i ELSE @,
                !.linked_spirv_index = IF create_info.codeType = "SPIRV" THEN i ELSE @,
                !.linked_binary_index = IF create_info.codeType = "BINARY" THEN i ELSE @]
        ELSE IF stage \cap GraphicsStageMask # {}
        THEN [st EXCEPT !.non_linked_graphics_stage = i]
        ELSE IF stage \cap TaskMeshStageMask # {}
        THEN [st EXCEPT !.non_linked_task_mesh_stage = i]
        ELSE st

RECURSIVE CreateInfosLoop(_, _, _, _)
CreateInfosLoop(infos, ef, i, st) ==
    IF i > Len(infos) THEN st
    ELSE CreateInfosLoop(infos, ef, i + 1,
            [CreateInfoIndices(infos, i, st) EXCEPT !.msgs = @ \o CreateInfoMsgs(infos, ef, i)])

ValidateCreateShadersLinking(infos, ef) ==
    LET invalid == Len(infos) + 1
        st == CreateInfosLoop(infos, ef, 1,
                [msgs |-> <<>>,
                 linked_stage |-> invalid,
                 non_linked_graphics_stage |-> invalid,
                 non_linked_task_mesh_stage |-> invalid,
                 linked_task_mesh_stage |-> invalid,
                 linked_vert_stage |-> invalid,
                 linked_task_stage |-> invalid,
                 linked_mesh_no_task_stage |-> invalid,
                 linked_spirv_index |-> invalid,
                 linked_binary_index |-> invalid])
    IN  st.msgs
        \o LogErrorIf(st.linked_stage # invalid /\ st.non_linked_graphics_stage # invalid,
                      8402, st.linked_stage, <<st.non_linked_graphics_stage>>)
        \o LogErrorIf(st.linked_stage # invalid /\ st.non_linked_task_mesh_stage # invalid,
                      8403, st.linked_stage, <<st.non_linked_task_mesh_stage>>)
        \o LogErrorIf(st.linked_vert_stage # invalid /\ st.linked_task_mesh_stage # invalid,
                      8404, st.linked_vert_stage, <<st.linked_task_mesh_stage>>)
        \o LogErrorIf(st.linked_task_stage # invalid /\ st.linked_mesh_no_task_stage # invalid,
                      8405, st.linked_task_stage, <<st.linked_mesh_no_task_stage>>)
        \o LogErrorIf(st.linked_spirv_index # invalid /\ st.linked_binary_index # invalid,
                      8411, st.linked_spirv_index, <<st.linked_binary_index>>)

----------------------------------------------------------------------------
(* CoreChecks::PreCallValidateCreateShadersEXT *)

\* vvl::kU32Max, the value of output_vertices when the entry point declares none;
\* the largest integer of the model checker stands for 2^32 - 1: it is, like
\* 2^32 - 1, above every patch size and equal to no declared one
kU32Max == 2147483647

\* phys_dev_props.limits.maxTessellationPatchSize of the device
maxTessellationPatchSize == 32

\* stage_state.entrypoint is the set of the entry points found: none or one
NoEntryPoint == {}

\* one iteration of the loop over the SPIR-V create infos: the messages about
\* the tessellation execution modes, and the tesc_linked_* / tese_linked_*
\* variables.  The messages of RunSpirvValidation and ValidatePipelineShaderStage
\* (the SPIR-V collaborators) are not part of this list.
TessellationStep(infos, i, st) ==
    LET create_info == infos[i]
        stage == create_info.stage
        entrypoint == create_info.entrypoint
        mode == (CHOOSE e \in entrypoint : TRUE).execution_mode
    IN  IF create_info.codeType # "SPIRV" THEN st
        ELSE IF ~(entrypoint # NoEntryPoint /\ (stage = TESC \/ stage = TESE)) THEN st
        ELSE LET logged ==
                     (IF stage = TESE
                      THEN LogErrorIf(mode.tessellation_subdivision = 0, 8872, i, <<>>)
                           \o LogErrorIf(mode.tessellation_orientation = 0, 8873, i, <<>>)
                           \o LogErrorIf(mode.tessellation_spacing = 0, 8874, i, <<>>)
                      ELSE <<>>)
                     \o LogErrorIf(mode.output_vertices # kU32Max
                                   /\ (mode.output_vertices = 0
                                       \/ mode.output_vertices > maxTessellationPatchSize),
                                   8453, i, <<>>)
                 linked == "LINK_STAGE" \in create_info.flags
             IN  [st EXCEPT
                    !.msgs = @ \o logged,
                    !.tesc_linked_subdivision =
                        IF linked /\ stage = TESC THEN mode.tessellation_subdivision ELSE @,
                    !.tesc_linked_orientation =
                        IF linked /\ stage = TESC THEN mode.tessellation_orientation ELSE @,
                    !.tesc_linked_point_mode =
                        IF linked /\ stage = TESC THEN mode.point_mode ELSE @,
                    !.tesc_linked_spacing =
                        IF linked /\ stage = TESC THEN mode.tessellation_spacing ELSE @,
                    !.tese_linked_subdivision =
                        IF linked /\ stage = TESE THEN mode.tessellation_subdivision ELSE @,
                    !.tese_linked_orientation =
                        IF linked /\ stage = TESE THEN mode.tessellation_orientation ELSE @,
                    !.tese_linked_point_mode =
                        IF linked /\ stage = TESE THEN mode.point_mode ELSE @,
                    !.tese_linked_spacing =
                        IF linked /\ stage = TESE THEN mode.tessellation_spacing ELSE @]

RECURSIVE TessellationLoop(_, _, _)
TessellationLoop(infos, i, st) ==
    IF i > Len(infos) THEN st
    ELSE TessellationLoop(infos, i + 1, TessellationStep(infos, i, st))

\* the checks without the tests that both stages declare the mode
TessellationLinkMsgs_Unguarded(st) ==
    LogErrorIf(st.tesc_linked_subdivision # st.tese_linked_subdivision, 8867, 0, <<>>)
    \o LogErrorIf(st.tesc_linked_orientation # st.tese_linked_orientation, 8868, 0, <<>>)
    \o LogErrorIf(st.tesc_linked_point_mode /\ ~st.tese_linked_point_mode, 8869, 0, <<>>)
    \o LogErrorIf(st.tesc_linked_spacing # st.tese_linked_spacing, 8870, 0, <<>>)

\* the orientation of tess-control compared with the spacing of tess-eval
TessellationLinkMsgs_WrongField(st) ==
    LogErrorIf(st.tesc_linked_subdivision # 0 /\ st.tese_linked_subdivision # 0
               /\ st.tesc_linked_subdivision # st.tese_linked_subdivision, 8867, 0, <<>>)
    \o LogErrorIf(st.tesc_linked_orientation # 0 /\ st.tese_linked_spacing # 0
                  /\ st.tesc_linked_orientation # st.tese_linked_spacing, 8868, 0, <<>>)
    \o LogErrorIf(st.tesc_linked_point_mode /\ ~st.tese_linked_point_mode, 8869, 0, <<>>)
    \o LogErrorIf(st.tesc_linked_spacing # 0 /\ st.tese_linked_spacing # 0
                  /\ st.tesc_linked_spacing # st.tese_linked_spacing, 8870, 0, <<>>)

\* the checks chained with else: only the first mismatch is reported
TessellationLinkMsgs_FirstOnly(st) ==
    IF st.tesc_linked_subdivision # 0 /\ st.tese_linked_subdivision # 0
       /\ st.tesc_linked_subdivision # st.tese_linked_subdivision
    THEN <<Msg(8867, 0, <<>>)>>
    ELSE IF st.tesc_linked_orientation # 0 /\ st.tese_linked_orientation # 0
            /\ st.tesc_linked_orientation # st.tese_linked_orientation
    THEN <<Msg(8868, 0, <<>>)>>
    ELSE IF st.tesc_linked_point_mode /\ ~st.tese_linked_point_mode
    THEN <<Msg(8869, 0, <<>>)>>
    ELSE LogErrorIf(st.tesc_linked_spacing # 0 /\ st.tese_linked_spacing # 0
                    /\ st.tesc_linked_spacing # st.tese_linked_spacing, 8870, 0, <<>>)

\* the four checks after the loop, on the linked tessellation execution modes
TessellationLinkMsgs(st) ==
    LogErrorIf(st.tesc_linked_subdivision # 0 /\ st.tese_linked_subdivision # 0
               /\ st.tesc_linked_subdivision # st.tese_linked_subdivision, 8867, 0, <<>>)
    \o LogErrorIf(st.tesc_linked_orientation # 0 /\ st.tese_linked_orientation # 0
                  /\ st.tesc_linked_orientation # st.tese_linked_orientation, 8868, 0, <<>>)
    \o LogErrorIf(st.tesc_linked_point_mode /\ ~st.tese_linked_point_mode, 8869, 0, <<>>)
    \o LogErrorIf(st.tesc_linked_spacing # 0 /\ st.tese_linked_spacing # 0
                  /\ st.tesc_linked_spacing # st.tese_linked_spacing, 8870, 0, <<>>)

ValidateCreateShaders(infos, ef) ==
    LET st == TessellationLoop(infos, 1,
                [msgs |-> <<>>,
                 tesc_linked_subdivision |-> 0, tese_linked_subdivision |-> 0,
                 tesc_linked_orientation |-> 0, tese_linked_orientation |-> 0,
                 tesc_linked_point_mode |-> FALSE, tese_linked_point_mode |-> FALSE,
                 tesc_linked_spacing |-> 0, tese_linked_spacing |-> 0])
    IN  LogErrorIf(~ef.shaderObject, 8400, 0, <<>>)
        \o ValidateCreateShadersLinking(infos, ef)
        \o st.msgs
        \o TessellationLinkMsgs(st)

PreCallValidateCreateShadersEXT ==
    /\ pc = "call"
    /\ api = "CreateShaders"
    /\ msgs' = ValidateCreateShaders(pCreateInfos, enabled_features)
    /\ pc' = "done"
    /\ UNCHANGED <<api, enabled_features, pCreateInfos, shader_objects, pStages, pShaders,
                   queue_flags, last_bound, dynamic_rendering, function>>
    /\ UNCHANGED labelVars

\* the application calls vkCreateShadersEXT once more with the same arguments:
\* the handler runs again and its messages follow those of the first call
RevalidateCreateShaders ==
    /\ pc = "done"
    /\ api = "CreateShaders"
    /\ msgs' = msgs \o ValidateCreateShaders(pCreateInfos, enabled_features)
    /\ pc' = "again"
    /\ UNCHANGED <<api, enabled_features, pCreateInfos, shader_objects, pStages, pShaders,
                   queue_flags, last_bound, dynamic_rendering, function>>
    /\ UNCHANGED labelVars

----------------------------------------------------------------------------
(* CoreChecks::PreCallValidateCmdBindShadersEXT *)

\* Get<vvl::ShaderObject>(shader): the state of the handle, if it has one
GetShaderObject(objects, shader) ==
    IF shader \in DOMAIN objects THEN {objects[shader]} ELSE {}

\* VkShaderEXT shader = pShaders ? pShaders[i] : VK_NULL_HANDLE
ShaderAt(shaders, i) == IF shaders = <<>> THEN VK_NULL_HANDLE ELSE shaders[i]

\* the inner loop run over every j, the positions before i included
RECURSIVE DuplicateStage_EveryJ(_, _, _)
DuplicateStage_EveryJ(stages, i, j) ==
    IF j > Len(stages) THEN <<>>
    ELSE LogErrorIf(i # j /\ stages[i] = stages[j], 8463, i, <<j>>)
         \o DuplicateStage_EveryJ(stages, i, j + 1)

\* the inner loop started at j = 0 instead of j = i
DuplicateStage_FromStart(stages, i, j) == DuplicateStage_EveryJ(stages, i, 1)

\* the messages of the inner loop  for (j = i; j < stageCount; ++j)
RECURSIVE DuplicateStage(_, _, _)
DuplicateStage(stages, i, j) ==
    IF j > Len(stages) THEN <<>>
    ELSE LogErrorIf(i # j /\ stages[i] = stages[j], 8463, i, <<j>>)
         \o DuplicateStage(stages, i, j + 1)

\* variants of the messages of one iteration: the ray tracing stages tested
\* with the mask or with equality, and the entry whose stage the creation
\* stage of the shader is compared with
BindStageMsgs_With(stages, shaders, objects, ef, queue, i, byMask, compared) ==
    LET stage == stages[i]
        shader == ShaderAt(shaders, i)
        bound == shader # VK_NULL_HANDLE
        shader_state == GetShaderObject(objects, shader)
    IN  DuplicateStage(stages, i, i)
        \o (IF stage = VERTEX /\ bound THEN <<>>
            ELSE IF stage = TASK /\ bound THEN <<>>
            ELSE IF stage = MESH /\ bound THEN <<>>
            ELSE IF ~ef.tessellationShader /\ (stage = TESC \/ stage = TESE) /\ bound
            THEN <<Msg(8474, i, <<i>>)>>
            ELSE IF ~ef.geometryShader /\ stage = GEOMETRY /\ bound
            THEN <<Msg(8475, i, <<i>>)>>
            ELSE IF stage = COMPUTE
            THEN LogErrorIf("COMPUTE" \notin queue, 8476, i, <<>>)
            ELSE <<>>)
        \o LogErrorIf(stage \cap GraphicsStageMask # {} /\ "GRAPHICS" \notin queue, 8477, i, <<>>)
        \o LogErrorIf(stage \cap TaskMeshStageMask # {} /\ "GRAPHICS" \notin queue, 8478, i, <<>>)
        \o (IF stage = TASK /\ ~ef.taskShader /\ bound THEN <<Msg(8490, i, <<i>>)>>
            ELSE IF stage = MESH /\ ~ef.meshShader /\ bound THEN <<Msg(8491, i, <<i>>)>>
            ELSE <<>>)
        \o LogErrorIf(stage = ALL_GRAPHICS \/ stage = ALL, 8464, i, <<>>)
        \o LogErrorIf(IF byMask THEN stage \cap kShaderStageAllRayTracing # {}
                                ELSE stage = kShaderStageAllRayTracing, 8465, i, <<>>)
        \o LogErrorIf(stage = SUBPASS_SHADING_HUAWEI, 8467, i, <<>>)
        \o LogErrorIf(stage = CLUSTER_CULLING_HUAWEI, 8468, i, <<>>)
        \o LogErrorIf(bound /\ shader_state # {}
                      /\ \E state \in shader_state : state.create_info.stage # stages[compared],
                      8469, i, <<i>>)

\* the ray tracing stages tested with == instead of &
BindStageMsgs_RayTracingEquals(stages, shaders, objects, ef, queue, i) ==
    BindStageMsgs_With(stages, shaders, objects, ef, queue, i, FALSE, i)

\* the creation stage compared with the stage of the first entry
BindStageMsgs_FirstStage(stages, shaders, objects, ef, queue, i) ==
    BindStageMsgs_With(stages, shaders, objects, ef, queue, i, TRUE, 1)

\* the messages one iteration of the loop over pStages logs
BindStageMsgs(stages, shaders, objects, ef, queue, i) ==
    LET stage == stages[i]
        shader == ShaderAt(shaders, i)
        bound == shader # VK_NULL_HANDLE
        shader_state == GetShaderObject(objects, shader)
    IN  DuplicateStage(stages, i, i)
        \o (IF stage = VERTEX /\ bound THEN <<>>
            ELSE IF stage = TASK /\ bound THEN <<>>
            ELSE IF stage = MESH /\ bound THEN <<>>
            ELSE IF ~ef.tessellationShader /\ (stage = TESC \/ stage = TESE) /\ bound
            THEN <<Msg(8474, i, <<i>>)>>
            ELSE IF ~ef.geometryShader /\ stage = GEOMETRY /\ bound
            THEN <<Msg(8475, i, <<i>>)>>
            ELSE IF stage = COMPUTE
            THEN LogErrorIf("COMPUTE" \notin queue, 8476, i, <<>>)
            ELSE <<>>)
        \o LogErrorIf(stage \cap GraphicsStageMask # {} /\ "GRAPHICS" \notin queue, 8477, i, <<>>)
        \o LogErrorIf(stage \cap TaskMeshStageMask # {} /\ "GRAPHICS" \notin queue, 8478, i, <<>>)
        \o (IF stage = TASK /\ ~ef.taskShader /\ bound THEN <<Msg(8490, i, <<i>>)>>
            ELSE IF stage = MESH /\ ~ef.meshShader /\ bound THEN <<Msg(8491, i, <<i>>)>>
            ELSE <<>>)
        \o LogErrorIf(stage = ALL_GRAPHICS \/ stage = ALL, 8464, i, <<>>)
        \o LogErrorIf(stage \cap kShaderStageAllRayTracing # {}, 8465, i, <<>>)
        \o LogErrorIf(stage = SUBPASS_SHADING_HUAWEI, 8467, i, <<>>)
        \o LogErrorIf(stage = CLUSTER_CULLING_HUAWEI, 8468, i, <<>>)
        \o LogErrorIf(bound /\ shader_state # {}
                      /\ \E state \in shader_state : state.create_info.stage # stage,
                      8469, i, <<i>>)

\* vertexStageIndex, taskStageIndex and meshStageIndex after one iteration
BindStageIndices(stages, shaders, i, st) ==
    LET stage == stages[i]
        bound == ShaderAt(shaders, i) # VK_NULL_HANDLE
    IN  IF stage = VERTEX /\ bound THEN [st EXCEPT !.vertexStageIndex = i]
        ELSE IF stage = TASK /\ bound THEN [st EXCEPT !.taskStageIndex = i]
        ELSE IF stage = MESH /\ bound THEN [st EXCEPT !.meshStageIndex = i]
        ELSE st

RECURSIVE BindStagesLoop(_, _, _, _, _, _, _)
BindStagesLoop(stages, shaders, objects, ef, queue, i, st) ==
    IF i > Len(stages) THEN st
    ELSE BindStagesLoop(stages, shaders, objects, ef, queue, i + 1,
            [BindStageIndices(stages, shaders, i, st) EXCEPT
                !.msgs = @ \o BindStageMsgs(stages, shaders, objects, ef, queue, i)])

\* the two checks after the loop, reported only for a vertex entry that comes
\* before the task or mesh entry
ExclusiveStagesMsgs_VertexFirst(stageCount, st) ==
    LogErrorIf(st.vertexStageIndex < st.taskStageIndex /\ st.taskStageIndex # stageCount + 1,
               8470, 0,
               <<st.vertexStageIndex, st.taskStageIndex, st.vertexStageIndex, st.taskStageIndex>>)
    \o LogErrorIf(st.vertexStageIndex < st.meshStageIndex /\ st.meshStageIndex # stageCount + 1,
                  8471, 0,
                  <<st.vertexStageIndex, st.meshStageIndex, st.vertexStageIndex, st.meshStageIndex>>)

\* the two checks after the loop: vertex with task, vertex with mesh
ExclusiveStagesMsgs(stageCount, st) ==
    LogErrorIf(st.vertexStageIndex # stageCount + 1 /\ st.taskStageIndex # stageCount + 1,
               8470, 0,
               <<st.vertexStageIndex, st.taskStageIndex, st.vertexStageIndex, st.taskStageIndex>>)
    \o LogErrorIf(st.vertexStageIndex # stageCount + 1 /\ st.meshStageIndex # stageCount + 1,
                  8471, 0,
                  <<st.vertexStageIndex, st.meshStageIndex, st.vertexStageIndex, st.meshStageIndex>>)

ValidateCmdBindShaders(stages, shaders, objects, ef, queue) ==
    LET stageCount == Len(stages)
        st == BindStagesLoop(stages, shaders, objects, ef, queue, 1,
                [msgs |-> <<>>,
                 vertexStageIndex |-> stageCount + 1,
                 taskStageIndex |-> stageCount + 1,
                 meshStageIndex |-> stageCount + 1])
    IN  LogErrorIf(~ef.shaderObject, 8462, 0, <<>>)
        \o st.msgs
        \o ExclusiveStagesMsgs(stageCount, st)

PreCallValidateCmdBindShadersEXT ==
    /\ pc = "call"
    /\ api = "BindShaders"
    /\ msgs' = ValidateCmdBindShaders(pStages, pShaders, shader_objects, enabled_features,
                                      queue_flags)
    /\ pc' = "done"
    /\ UNCHANGED <<api, enabled_features, pCreateInfos, shader_objects, pStages, pShaders,
                   queue_flags, last_bound, dynamic_rendering, function>>
    /\ UNCHANGED labelVars

----------------------------------------------------------------------------
(* LastBound and vvl::ShaderObject, as the draw-time checks use them *)

\* enum class ShaderObjectStage, in its order; shader_object_states is indexed
\* by it (from 1 here)
ShaderObjectStageOrder == <<VERTEX, TESC, TESE, GEOMETRY, FRAGMENT, COMPUTE, TASK, MESH>>

kShaderObjectStageCount == 8

\* VkShaderStageToShaderObjectStage
VkShaderStageToShaderObjectStage(stage) ==
    CHOOSE i \in 1..kShaderObjectStageCount : ShaderObjectStageOrder[i] = stage

\* LastBound::GetShader: the handle bound to the stage, VK_NULL_HANDLE if none
GetShader(lb, i) == lb.shader_object_states[i]

\* LastBound::GetShaderState: the state bound to the stage, if any
GetShaderState(lb, objects, i) == GetShaderObject(objects, lb.shader_object_states[i])

\* vvl::ShaderObject::IsGraphicsShaderState
IsGraphicsShaderState(state) == state.create_info.stage # COMPUTE

----------------------------------------------------------------------------
(* CoreChecks::ValidateDrawShaderObject *)

\* the checks with the task/mesh pairing done when either feature is enabled
BoundStageMsgs_EitherFeature(lb, objects, ef) ==
    LET validVertShader == GetShader(lb, VkShaderStageToShaderObjectStage(VERTEX)) # VK_NULL_HANDLE
        validTaskShader == GetShader(lb, VkShaderStageToShaderObjectStage(TASK)) # VK_NULL_HANDLE
        validMeshShader == GetShader(lb, VkShaderStageToShaderObjectStage(MESH)) # VK_NULL_HANDLE
        noTask == \E state \in GetShaderState(lb, objects, VkShaderStageToShaderObjectStage(MESH)) :
                      "NO_TASK_SHADER" \in state.create_info.flags
    IN  LogErrorIf((ef.taskShader \/ ef.meshShader)
                   /\ ((validVertShader /\ validMeshShader)
                       \/ (~validVertShader /\ ~validMeshShader)), 8693, 0, <<>>)
        \o (IF ef.taskShader \/ ef.meshShader
            THEN IF validMeshShader /\ ~noTask /\ ~validTaskShader
                 THEN <<Msg(8694, 0, <<>>)>>
                 ELSE IF validMeshShader /\ noTask /\ validTaskShader
                 THEN <<Msg(8695, 0, <<>>)>>
                 ELSE <<>>
            ELSE <<>>)
        \o LogErrorIf(validVertShader /\ (validTaskShader \/ validMeshShader), 8696, 0, <<>>)

\* the checks with 08693 logged only under both features
BoundStageMsgs_BothFeatures(lb, objects, ef) ==
    LET validVertShader == GetShader(lb, VkShaderStageToShaderObjectStage(VERTEX)) # VK_NULL_HANDLE
        validTaskShader == GetShader(lb, VkShaderStageToShaderObjectStage(TASK)) # VK_NULL_HANDLE
        validMeshShader == GetShader(lb, VkShaderStageToShaderObjectStage(MESH)) # VK_NULL_HANDLE
        noTask == \E state \in GetShaderState(lb, objects, VkShaderStageToShaderObjectStage(MESH)) :
                      "NO_TASK_SHADER" \in state.create_info.flags
    IN  LogErrorIf((ef.taskShader /\ ef.meshShader)
                   /\ ((validVertShader /\ validMeshShader)
                       \/ (~validVertShader /\ ~validMeshShader)), 8693, 0, <<>>)
        \o (IF ef.taskShader /\ ef.meshShader
            THEN IF validMeshShader /\ ~noTask /\ ~validTaskShader
                 THEN <<Msg(8694, 0, <<>>)>>
                 ELSE IF validMeshShader /\ noTask /\ validTaskShader
                 THEN <<Msg(8695, 0, <<>>)>>
                 ELSE <<>>
            ELSE <<>>)
        \o LogErrorIf(validVertShader /\ (validTaskShader \/ validMeshShader), 8696, 0, <<>>)

\* the checks of the vertex, task and mesh shaders that are bound together
BoundStageMsgs(lb, objects, ef) ==
    LET validVertShader == GetShader(lb, VkShaderStageToShaderObjectStage(VERTEX)) # VK_NULL_HANDLE
        validTaskShader == GetShader(lb, VkShaderStageToShaderObjectStage(TASK)) # VK_NULL_HANDLE
        validMeshShader == GetShader(lb, VkShaderStageToShaderObjectStage(MESH)) # VK_NULL_HANDLE
        noTask == \E state \in GetShaderState(lb, objects, VkShaderStageToShaderObjectStage(MESH)) :
                      "NO_TASK_SHADER" \in state.create_info.flags
    IN  LogErrorIf((ef.taskShader \/ ef.meshShader)
                   /\ ((validVertShader /\ validMeshShader)
                       \/ (~validVertShader /\ ~validMeshShader)), 8693, 0, <<>>)
        \o (IF ef.taskShader /\ ef.meshShader
            THEN IF validMeshShader /\ ~noTask /\ ~validTaskShader
                 THEN <<Msg(8694, 0, <<>>)>>
                 ELSE IF validMeshShader /\ noTask /\ validTaskShader
                 THEN <<Msg(8695, 0, <<>>)>>
                 ELSE <<>>
            ELSE <<>>)
        \o LogErrorIf(validVertShader /\ (validTaskShader \/ validMeshShader), 8696, 0, <<>>)

\* What the loops over the linked shaders leave: the messages logged, and
\* whether the call ended in the dereference of a null missingShader.
LinkedResult(ms, fault) == [msgs |-> ms, fault |-> fault]

\* for (const auto& linkedShader : linked_shaders): the first linked shader,
\* from position k on, that no stage has bound is reported, and the loop ends.
\* The message reads missingShader->create_info.stage: when the linked shader
\* has no state (it was destroyed), missingShader is null and the read is
\* undefined; deref is what the read does, "reads" (some value is formatted
\* and the message is logged) or "faults" (the call ends there).
RECURSIVE LinkedShaderMsgs(_, _, _, _, _, _)
LinkedShaderMsgs(lb, objects, linked_shaders, i, k, deref) ==
    IF k > Len(linked_shaders) THEN LinkedResult(<<>>, FALSE)
    ELSE IF \E j \in 1..kShaderObjectStageCount : linked_shaders[k] = GetShader(lb, j)
    THEN LinkedShaderMsgs(lb, objects, linked_shaders, i, k + 1, deref)
    ELSE IF GetShaderObject(objects, linked_shaders[k]) = {} /\ deref = "faults"
    THEN LinkedResult(<<>>, TRUE)
    ELSE LinkedResult(<<Msg(8698, 0, <<i, linked_shaders[k]>>)>>, FALSE)

\* the loop over the stages that reports linked shaders that are not bound
RECURSIVE LinkedShadersLoop(_, _, _, _)
LinkedShadersLoop(lb, objects, i, deref) ==
    IF i > kShaderObjectStageCount THEN LinkedResult(<<>>, FALSE)
    ELSE LET here == IF i # VkShaderStageToShaderObjectStage(COMPUTE)
                        /\ lb.shader_object_states[i] # VK_NULL_HANDLE
                     THEN LinkedShaderMsgs(lb, objects,
                                           objects[lb.shader_object_states[i]].linked_shaders,
                                           i, 1, deref)
                     ELSE LinkedResult(<<>>, FALSE)
         IN  IF here.fault THEN here
             ELSE LET rest == LinkedShadersLoop(lb, objects, i + 1, deref)
                  IN  LinkedResult(here.msgs \o rest.msgs, rest.fault)

\* next_stage after a bound stage: the nextStage of its state if a linked
\* shader was created with that stage, VK_SHADER_STAGE_ALL otherwise
LinkedNextStage(objects, state) ==
    IF \E k \in 1..Len(state.linked_shaders) :
          \E linked_state \in GetShaderObject(objects, state.linked_shaders[k]) :
              linked_state.create_info.stage = state.create_info.nextStage
    THEN state.create_info.nextStage
    ELSE ALL

\* the walk over graphics_stages, from position g on, with the next_stage the
\* stages before left
RECURSIVE GraphicsChainMsgs(_, _, _, _)
GraphicsChainMsgs(lb, objects, g, next_stage) ==
    IF g > Len(graphicsStages) THEN <<>>
    ELSE LET stage == graphicsStages[g]
             bound == GetShaderState(lb, objects, VkShaderStageToShaderObjectStage(stage))
         IN  IF bound = {} THEN GraphicsChainMsgs(lb, objects, g + 1, next_stage)
             ELSE LET state == CHOOSE st \in bound : TRUE
                  IN  IF next_stage # ALL /\ state.create_info.stage # next_stage
                      THEN <<Msg(8699, 0, <<g>>)>>
                      ELSE GraphicsChainMsgs(lb, objects, g + 1,
                                             LinkedNextStage(objects, state))

\* the loop over the elements of mine, from position i on: "found" is declared
\* before the loop and never reset, so it stays true once an element of mine
\* was found in first
RECURSIVE NotFoundLoop(_, _, _, _)
NotFoundLoop(first, mine, i, found) ==
    IF i > Len(mine) THEN FALSE
    ELSE LET found_i == found \/ \E j \in 1..Len(first) : mine[i] = first[j]
         IN  IF ~found_i THEN TRUE
             ELSE NotFoundLoop(first, mine, i + 1, found_i)

\* pushConstsDifferent / descriptorLayoutsDifferent
ArraysDifferent(first, mine) ==
    IF Len(first) # Len(mine) THEN TRUE
    ELSE NotFoundLoop(first, mine, 1, FALSE)

\* the loop over shader_object_states that compares the push constant ranges
\* and the descriptor set layouts of each graphics shader with the first one
RECURSIVE ResourceMsgs(_, _, _, _)
ResourceMsgs(lb, objects, i, first) ==
    IF i > kShaderObjectStageCount THEN <<>>
    ELSE LET bound == GetShaderState(lb, objects, i)
         IN  IF bound = {} \/ \A st \in bound : ~IsGraphicsShaderState(st)
             THEN ResourceMsgs(lb, objects, i + 1, first)
             ELSE IF first = 0 THEN ResourceMsgs(lb, objects, i + 1, i)
             ELSE LET shader_state == CHOOSE st \in bound : TRUE
                      first_state == objects[lb.shader_object_states[first]]
                  IN  LogErrorIf(ArraysDifferent(first_state.create_info.pPushConstantRanges,
                                                 shader_state.create_info.pPushConstantRanges),
                                 8878, 0, <<first, i>>)
                      \o LogErrorIf(ArraysDifferent(first_state.create_info.pSetLayouts,
                                                    shader_state.create_info.pSetLayouts),
                                    8879, 0, <<first, i>>)
                      \o ResourceMsgs(lb, objects, i + 1, first)

\* the list without the EXT commands
MeshDrawFunctions_NVOnly ==
    {"vkCmdDrawMeshTasksNV", "vkCmdDrawMeshTasksIndirectNV", "vkCmdDrawMeshTasksIndirectCountNV"}

MeshDrawFunctions ==
    {"vkCmdDrawMeshTasksNV", "vkCmdDrawMeshTasksIndirectNV", "vkCmdDrawMeshTasksIndirectCountNV",
     "vkCmdDrawMeshTasksEXT", "vkCmdDrawMeshTasksIndirectEXT",
     "vkCmdDrawMeshTasksIndirectCountEXT"}

\* CoreChecks::ValidateDrawShaderObjectMesh
ValidateDrawShaderObjectMesh(lb, func) ==
    LET task_shader == GetShader(lb, VkShaderStageToShaderObjectStage(TASK)) # VK_NULL_HANDLE
        mesh_shader == GetShader(lb, VkShaderStageToShaderObjectStage(MESH)) # VK_NULL_HANDLE
    IN  IF func \in MeshDrawFunctions THEN <<>>
        ELSE LogErrorIf(task_shader \/ mesh_shader, 8885, 0, <<>>)

ValidateDrawShaderObject(lb, objects, ef, dynamic, func, deref) ==
    LET linked == LinkedShadersLoop(lb, objects, 1, deref)
        before == LogErrorIf(~dynamic, 8876, 0, <<>>)
                  \o BoundStageMsgs(lb, objects, ef)
                  \o linked.msgs
    IN  IF linked.fault THEN LinkedResult(before, TRUE)
        ELSE LinkedResult(before
                          \o GraphicsChainMsgs(lb, objects, 1, ALL)
                          \o ResourceMsgs(lb, objects, 1, 0)
                          \o ValidateDrawShaderObjectMesh(lb, func),
                          FALSE)

\* the validation of a draw command with shader objects bound
ValidateDraw ==
    /\ pc = "call"
    /\ api = "Draw"
    /\ \E deref \in {"reads", "faults"} :
          LET result == ValidateDrawShaderObject(last_bound, shader_objects, enabled_features,
                                                 dynamic_rendering, function, deref)
          IN  /\ msgs' = result.msgs
              /\ pc' = IF result.fault THEN "fault" ELSE "done"
    /\ UNCHANGED <<api, enabled_features, pCreateInfos, shader_objects, pStages, pShaders,
                   queue_flags, last_bound, dynamic_rendering, function>>
    /\ UNCHANGED labelVars

----------------------------------------------------------------------------
(* CoreChecks::ValidateShaderObjectBoundShader *)

\* LastBound::IsValidShaderOrNullBound: vkCmdBindShadersEXT named the stage,
\* with a shader or with VK_NULL_HANDLE
IsValidShaderOrNullBound(lb, i) == lb.shader_object_bound[i]

\* LastBound::ValidShaderObjectCombination: the compute stage was named for
\* the compute bind point; the vertex stage, or with the meshShader feature
\* the mesh stage, was named for the graphics bind point
ValidShaderObjectCombination(lb, bind_point, ef) ==
    IF bind_point = "COMPUTE"
    THEN IsValidShaderOrNullBound(lb, VkShaderStageToShaderObjectStage(COMPUTE))
    ELSE \/ IsValidShaderOrNullBound(lb, VkShaderStageToShaderObjectStage(VERTEX))
         \/ (ef.meshShader /\ IsValidShaderOrNullBound(lb, VkShaderStageToShaderObjectStage(MESH)))

\* the stages tested whatever the features are
ValidateShaderObjectBoundShader_NoFeatureTest(lb, bind_point, ef) ==
    LET Missing(stage) == ~IsValidShaderOrNullBound(lb, VkShaderStageToShaderObjectStage(stage))
    IN  LogErrorIf(~ValidShaderObjectCombination(lb, bind_point, ef), 8607, 0, <<>>)
        \o (IF bind_point = "GRAPHICS"
            THEN LogErrorIf(Missing(VERTEX), 8684, 0, <<>>)
                 \o LogErrorIf(Missing(TESC), 8685, 0, <<>>)
                 \o LogErrorIf(Missing(TESE), 8686, 0, <<>>)
                 \o LogErrorIf(Missing(GEOMETRY), 8687, 0, <<>>)
                 \o LogErrorIf(Missing(FRAGMENT), 8688, 0, <<>>)
                 \o LogErrorIf(Missing(TASK), 8689, 0, <<>>)
                 \o LogErrorIf(Missing(MESH), 8690, 0, <<>>)
            ELSE <<>>)

\* a variant that tests that a shader is bound, not that the stage was named
ValidateShaderObjectBoundShader_NullIsMissing(lb, bind_point, ef) ==
    LET Missing(stage) == GetShader(lb, VkShaderStageToShaderObjectStage(stage)) = VK_NULL_HANDLE
    IN  LogErrorIf(~ValidShaderObjectCombination(lb, bind_point, ef), 8607, 0, <<>>)
        \o (IF bind_point = "GRAPHICS"
            THEN LogErrorIf(Missing(VERTEX), 8684, 0, <<>>)
                 \o LogErrorIf(ef.tessellationShader /\ Missing(TESC), 8685, 0, <<>>)
                 \o LogErrorIf(ef.tessellationShader /\ Missing(TESE), 8686, 0, <<>>)
                 \o LogErrorIf(ef.geometryShader /\ Missing(GEOMETRY), 8687, 0, <<>>)
                 \o LogErrorIf(Missing(FRAGMENT), 8688, 0, <<>>)
                 \o LogErrorIf(ef.taskShader /\ Missing(TASK), 8689, 0, <<>>)
                 \o LogErrorIf(ef.meshShader /\ Missing(MESH), 8690, 0, <<>>)
            ELSE <<>>)

ValidateShaderObjectBoundShader(lb, bind_point, ef) ==
    LET Missing(stage) == ~IsValidShaderOrNullBound(lb, VkShaderStageToShaderObjectStage(stage))
    IN  LogErrorIf(~ValidShaderObjectCombination(lb, bind_point, ef), 8607, 0, <<>>)
        \o (IF bind_point = "GRAPHICS"
            THEN LogErrorIf(Missing(VERTEX), 8684, 0, <<>>)
                 \o LogErrorIf(ef.tessellationShader /\ Missing(TESC), 8685, 0, <<>>)
                 \o LogErrorIf(ef.tessellationShader /\ Missing(TESE), 8686, 0, <<>>)
                 \o LogErrorIf(ef.geometryShader /\ Missing(GEOMETRY), 8687, 0, <<>>)
                 \o LogErrorIf(Missing(FRAGMENT), 8688, 0, <<>>)
                 \o LogErrorIf(ef.taskShader /\ Missing(TASK), 8689, 0, <<>>)
                 \o LogErrorIf(ef.meshShader /\ Missing(MESH), 8690, 0, <<>>)
            ELSE <<>>)

\* the validation of a draw with no pipeline bound: the stages that were
\* bound, then the shader objects that are bound
ValidateDrawBoundShaders ==
    /\ pc = "call"
    /\ api = "DrawBoundShaders"
    /\ \E deref \in {"reads", "faults"} :
          LET result == ValidateDrawShaderObject(last_bound, shader_objects, enabled_features,
                                                 dynamic_rendering, function, deref)
          IN  /\ msgs' = ValidateShaderObjectBoundShader(last_bound, "GRAPHICS", enabled_features)
                         \o result.msgs
              /\ pc' = IF result.fault THEN "fault" ELSE "done"
    /\ UNCHANGED <<api, enabled_features, pCreateInfos, shader_objects, pStages, pShaders,
                   queue_flags, last_bound, dynamic_rendering, function>>
    /\ UNCHANGED labelVars

----------------------------------------------------------------------------
(* The calls vkCreateShadersEXT is validated on *)

AllFeatures ==
    [shaderObject |-> TRUE, tessellationShader |-> TRUE, geometryShader |-> TRUE,
     taskShader |-> TRUE, meshShader |-> TRUE, attachmentFragmentShadingRate |-> TRUE,
     fragmentDensityMap |-> TRUE, subgroupSizeControl |-> TRUE,
     computeFullSubgroups |-> TRUE]

EntryPoint(subdivision, orientation, point_mode, spacing, output_vertices) ==
    {[execution_mode |->
        [tessellation_subdivision |-> subdivision, tessellation_orientation |-> orientation,
         point_mode |-> point_mode, tessellation_spacing |-> spacing,
         output_vertices |-> output_vertices]]}

\* an entry point that declares no tessellation execution mode
PlainEntryPoint == EntryPoint(0, 0, FALSE, 0, kU32Max)

CreateInfo(stage, nextStage, flags, codeType, entrypoint) ==
    [stage |-> stage, nextStage |-> nextStage, flags |-> flags, codeType |-> codeType,
     entrypoint |-> entrypoint]

\* the nextStage values of the linked create infos: no bit, single stages
\* that can follow another, and a value of two bits
LinkNextStages == {NoStage, TESE, GEOMETRY, FRAGMENT, MESH, GEOMETRY \cup FRAGMENT}

\* NO_TASK_SHADER is a flag of mesh shaders
LinkFlagSets(stage) ==
    {{"LINK_STAGE"}} \cup (IF stage = MESH THEN {{"LINK_STAGE", "NO_TASK_SHADER"}} ELSE {})

\* SPIR-V create infos of every stage: the linked ones with every next stage
\* above, the others with no next stage or the fragment stage
LinkCreateInfos ==
    UNION {{CreateInfo(s, n, f, "SPIRV", PlainEntryPoint) :
                n \in LinkNextStages, f \in LinkFlagSets(s)} : s \in ShaderObjectStages}
    \cup {CreateInfo(s, n, {}, "SPIRV", PlainEntryPoint) :
                s \in ShaderObjectStages, n \in {NoStage, FRAGMENT}}

\* the variables of the other calls, while vkCreateShadersEXT is validated
NoBindCall ==
    /\ shader_objects = <<>>
    /\ pStages = <<>>
    /\ pShaders = <<>>
    /\ queue_flags = {}

NoCreateCall == pCreateInfos = <<>>

\* no debug label was begun or inserted
NoLabelCall ==
    /\ debugUtilsQueueLabels = <<>>
    /\ debugUtilsCmdBufLabels = <<>>
    /\ label_calls = <<>>

NoDrawCall ==
    /\ last_bound = [shader_object_states |-> <<>>]
    /\ dynamic_rendering = TRUE
    /\ function = "none"
    /\ NoLabelCall

InitCreateLinking ==
    /\ pc = "call"
    /\ api = "CreateShaders"
    /\ enabled_features = AllFeatures
    /\ \E createInfoCount \in 1..MaxCreateInfos :
            pCreateInfos \in [1..createInfoCount -> LinkCreateInfos]
    /\ NoBindCall
    /\ NoDrawCall
    /\ msgs = <<>>

\* SPIR-V create infos of every stage with and without LINK_STAGE, the mesh
\* stage also with NO_TASK_SHADER, none naming a next stage
MixedCreateInfos ==
    UNION {{CreateInfo(s, NoStage, f, "SPIRV", PlainEntryPoint) :
                f \in LinkFlagSets(s) \cup {{}}} : s \in ShaderObjectStages}

InitCreateMixed ==
    /\ pc = "call"
    /\ api = "CreateShaders"
    /\ enabled_features = AllFeatures
    /\ \E createInfoCount \in 1..MaxMixedInfos :
            pCreateInfos \in [1..createInfoCount -> MixedCreateInfos]
    /\ NoBindCall
    /\ NoDrawCall
    /\ msgs = <<>>

\* the create infos of the calls validated twice: those above, and linked
\* tessellation stages with entry points that differ, with a patch size of 0
\* and with binary code
RepeatedCreateInfos ==
    MixedCreateInfos
    \cup {CreateInfo(TESC, TESE, {"LINK_STAGE"}, "SPIRV", EntryPoint(1, 1, TRUE, 1, 0)),
          CreateInfo(TESE, NoStage, {"LINK_STAGE"}, "SPIRV", EntryPoint(2, 1, FALSE, 0, kU32Max)),
          CreateInfo(TESE, NoStage, {"LINK_STAGE"}, "BINARY", NoEntryPoint)}

InitCreateRepeated ==
    /\ pc = "call"
    /\ api = "CreateShaders"
    /\ \E so \in BOOLEAN, ts \in BOOLEAN :
          enabled_features =
              [AllFeatures EXCEPT !.shaderObject = so, !.tessellationShader = ts]
    /\ \E createInfoCount \in 1..MaxRepeatedInfos :
            pCreateInfos \in [1..createInfoCount -> RepeatedCreateInfos]
    /\ NoBindCall
    /\ NoDrawCall
    /\ msgs = <<>>

\* the nextStage values of the next-stage calls: every combination of the
\* bits of the stages that may follow another, and the other single stages
MaskNextStages ==
    {UNION S : S \in SUBSET {TESE, GEOMETRY, FRAGMENT, MESH}}
    \cup {VERTEX, TESC, COMPUTE, TASK}

MaskCreateInfos ==
    {CreateInfo(s, n, f, "SPIRV", PlainEntryPoint) :
        s \in ShaderObjectStages, n \in MaskNextStages, f \in {{}, {"LINK_STAGE"}}}

InitCreateNextStage ==
    /\ pc = "call"
    /\ api = "CreateShaders"
    /\ enabled_features = AllFeatures
    /\ \E createInfoCount \in 1..MaxNextStageInfos :
            pCreateInfos \in [1..createInfoCount -> MaskCreateInfos]
    /\ NoBindCall
    /\ NoDrawCall
    /\ msgs = <<>>

\* Calls of vertex, tess-control and tess-eval descriptors with every
\* nextStage above, with the tessellation and geometry features enabled or not.
FeatureCreateInfos ==
    {CreateInfo(s, n, {}, "SPIRV", PlainEntryPoint) :
        s \in {VERTEX, TESC, TESE}, n \in MaskNextStages}

InitCreateNextStageFeatures ==
    /\ pc = "call"
    /\ api = "CreateShaders"
    /\ \E tess \in BOOLEAN, geom \in BOOLEAN :
          enabled_features = [AllFeatures EXCEPT !.tessellationShader = tess,
                                                 !.geometryShader = geom]
    /\ \E createInfoCount \in 1..MaxNextStageInfos :
            pCreateInfos \in [1..createInfoCount -> FeatureCreateInfos]
    /\ NoBindCall
    /\ NoDrawCall
    /\ msgs = <<>>

\* the values of a tessellation execution mode: 0 (not declared) and two
\* declared ones
TessModes == 0..2

TessEntryPoints ==
    UNION {EntryPoint(sub, ori, pm, sp, kU32Max) :
                sub \in TessModes, ori \in TessModes, pm \in BOOLEAN, sp \in TessModes}

\* the tessellation create infos of a stage: linked SPIR-V with every entry
\* point above or with none, linked binary, and one SPIR-V without LinkStage
TessCreateInfos(stage, nextStage) ==
    {CreateInfo(stage, nextStage, {"LINK_STAGE"}, "SPIRV", {e}) : e \in TessEntryPoints}
    \cup {CreateInfo(stage, nextStage, {"LINK_STAGE"}, "SPIRV", NoEntryPoint),
          CreateInfo(stage, nextStage, {"LINK_STAGE"}, "BINARY", NoEntryPoint),
          CreateInfo(stage, nextStage, {}, "SPIRV", EntryPoint(1, 1, TRUE, 1, kU32Max))}

InitCreateTessellation ==
    /\ pc = "call"
    /\ api = "CreateShaders"
    /\ enabled_features = AllFeatures
    /\ \E createInfoCount \in 1..MaxTessInfos :
            pCreateInfos \in [1..createInfoCount ->
                                TessCreateInfos(TESC, TESE) \cup TessCreateInfos(TESE, NoStage)]
    /\ NoBindCall
    /\ NoDrawCall
    /\ msgs = <<>>

\* the patch sizes of an entry point: not declared, 0, one the limit allows
\* and one above the limit
PatchSizes == {kU32Max, 0, 3, maxTessellationPatchSize + 1}

PairEntryPoints ==
    UNION {EntryPoint(sub, ori, pm, sp, ov) :
                sub \in TessModes, ori \in TessModes, pm \in BOOLEAN, sp \in TessModes,
                ov \in PatchSizes}

\* Batches of the two linked SPIR-V descriptors {tess-control, nextStage =
\* tess-eval} and {tess-eval, nextStage = 0}, in either order, with every pair
\* of entry points, the tessellation feature enabled and the shaderObject
\* feature enabled or not.
InitCreateTessPair ==
    /\ pc = "call"
    /\ api = "CreateShaders"
    /\ \E so \in BOOLEAN : enabled_features = [AllFeatures EXCEPT !.shaderObject = so]
    /\ \E tesc \in PairEntryPoints, tese \in PairEntryPoints :
          pCreateInfos \in
              {<<CreateInfo(TESC, TESE, {"LINK_STAGE"}, "SPIRV", {tesc}),
                 CreateInfo(TESE, NoStage, {"LINK_STAGE"}, "SPIRV", {tese})>>,
               <<CreateInfo(TESE, NoStage, {"LINK_STAGE"}, "SPIRV", {tese}),
                 CreateInfo(TESC, TESE, {"LINK_STAGE"}, "SPIRV", {tesc})>>}
    /\ NoBindCall
    /\ NoDrawCall
    /\ msgs = <<>>

NextCreate == PreCallValidateCreateShadersEXT

SpecCreateTessPair == InitCreateTessPair /\ [][NextCreate]_vars

SpecCreateLinking == InitCreateLinking /\ [][NextCreate]_vars

SpecCreateMixed == InitCreateMixed /\ [][NextCreate]_vars

NextCreateRepeated ==
    \/ PreCallValidateCreateShadersEXT
    \/ RevalidateCreateShaders

SpecCreateRepeated == InitCreateRepeated /\ [][NextCreateRepeated]_vars

SpecCreateNextStage == InitCreateNextStage /\ [][NextCreate]_vars

SpecCreateNextStageFeatures == InitCreateNextStageFeatures /\ [][NextCreate]_vars

SpecCreateTessellation == InitCreateTessellation /\ [][NextCreate]_vars

----------------------------------------------------------------------------
(* The calls vkCmdBindShadersEXT is validated on *)

ShaderObject(stage, nextStage, flags, linked_shaders, pushConstantRanges, setLayouts) ==
    [create_info |-> [stage |-> stage, nextStage |-> nextStage, flags |-> flags,
                      pPushConstantRanges |-> pushConstantRanges,
                      pSetLayouts |-> setLayouts],
     linked_shaders |-> linked_shaders]

\* an unlinked shader object of a stage, with no push constant range and no
\* descriptor set layout
PlainShaderObject(stage) == ShaderObject(stage, NoStage, {}, <<>>, <<>>, <<>>)

\* the shader objects of the bind calls: a vertex, a task and a mesh shader
BindShaderObjects ==
    <<PlainShaderObject(VERTEX), PlainShaderObject(TASK), PlainShaderObject(MESH)>>

\* the handles of these, VK_NULL_HANDLE, and a handle with no state
BindShaderHandles == {VK_NULL_HANDLE} \cup (1..(Len(BindShaderObjects) + 1))

BindStages ==
    ShaderObjectStages
    \cup {ALL_GRAPHICS, ALL, RAYGEN, SUBPASS_SHADING_HUAWEI, CLUSTER_CULLING_HUAWEI}

InitBind ==
    /\ pc = "call"
    /\ api = "BindShaders"
    /\ enabled_features = AllFeatures
    /\ NoCreateCall
    /\ NoDrawCall
    /\ shader_objects = BindShaderObjects
    /\ queue_flags = {"GRAPHICS", "COMPUTE"}
    /\ \E stageCount \in 1..MaxStageCount :
          /\ pStages \in [1..stageCount -> BindStages]
          /\ pShaders \in [1..stageCount -> BindShaderHandles] \cup {<<>>}
    /\ msgs = <<>>

\* Bind calls over every stage value: the eight stages of shader objects,
\* the two aggregate values, the six ray tracing stages and the two HUAWEI
\* stages, with a vertex shader, VK_NULL_HANDLE or no pShaders, on a command
\* pool of every queue capability.
EveryBindStage ==
    ShaderObjectStages
    \cup {ALL_GRAPHICS, ALL, RAYGEN, ANY_HIT, CLOSEST_HIT, MISS, INTERSECTION, CALLABLE,
          SUBPASS_SHADING_HUAWEI, CLUSTER_CULLING_HUAWEI}

InitBindEveryStage ==
    /\ pc = "call"
    /\ api = "BindShaders"
    /\ enabled_features = AllFeatures
    /\ NoCreateCall
    /\ NoDrawCall
    /\ shader_objects = BindShaderObjects
    /\ queue_flags \in SUBSET {"GRAPHICS", "COMPUTE"}
    /\ \E stageCount \in 1..MaxEveryStageCount :
          /\ pStages \in [1..stageCount -> EveryBindStage]
          /\ pShaders \in [1..stageCount -> {VK_NULL_HANDLE, 1}] \cup {<<>>}
    /\ msgs = <<>>

\* Bind calls that repeat stages: up to MaxRepeatedStages entries over three
\* stages, with every shader reference or no pShaders at all.
RepeatedStages == {VERTEX, FRAGMENT, TASK}

InitBindRepeated ==
    /\ pc = "call"
    /\ api = "BindShaders"
    /\ enabled_features = AllFeatures
    /\ NoCreateCall
    /\ NoDrawCall
    /\ shader_objects = BindShaderObjects
    /\ queue_flags = {"GRAPHICS", "COMPUTE"}
    /\ \E stageCount \in 1..MaxRepeatedStages :
          /\ pStages \in [1..stageCount -> RepeatedStages]
          /\ pShaders \in [1..stageCount -> BindShaderHandles] \cup {<<>>}
    /\ msgs = <<>>

NextBind == PreCallValidateCmdBindShadersEXT

SpecBindRepeated == InitBindRepeated /\ [][NextBind]_vars

SpecBindEveryStage == InitBindEveryStage /\ [][NextBind]_vars

SpecBind == InitBind /\ [][NextBind]_vars

----------------------------------------------------------------------------
(* The draw commands that are validated *)

NoCalls ==
    NoCreateCall /\ pStages = <<>> /\ pShaders = <<>> /\ queue_flags = {} /\ NoLabelCall

DrawFunctions == {"vkCmdDraw", "vkCmdDrawMeshTasksEXT"}

\* Draws with vertex, fragment, task and mesh shaders bound or not, under every
\* setting of the task and mesh features.  Handles: 1 vertex, 2 fragment,
\* 3 task, 4 mesh, 5 mesh created with NO_TASK_SHADER.
MeshShaderObjects ==
    <<PlainShaderObject(VERTEX), PlainShaderObject(FRAGMENT), PlainShaderObject(TASK),
      PlainShaderObject(MESH),
      ShaderObject(MESH, NoStage, {"NO_TASK_SHADER"}, <<>>, <<>>, <<>>)>>

InitDrawMesh ==
    /\ pc = "call"
    /\ api = "Draw"
    /\ NoCalls
    /\ \E task \in BOOLEAN, mesh \in BOOLEAN :
          enabled_features = [AllFeatures EXCEPT !.taskShader = task, !.meshShader = mesh]
    /\ shader_objects = MeshShaderObjects
    /\ \E v \in {VK_NULL_HANDLE, 1}, f \in {VK_NULL_HANDLE, 2}, t \in {VK_NULL_HANDLE, 3},
          m \in {VK_NULL_HANDLE, 4, 5} :
          last_bound = [shader_object_states |->
                            <<v, VK_NULL_HANDLE, VK_NULL_HANDLE, VK_NULL_HANDLE, f,
                              VK_NULL_HANDLE, t, m>>]
    /\ dynamic_rendering \in BOOLEAN
    /\ function \in DrawFunctions
    /\ msgs = <<>>

\* the elements of a set of numbers, in increasing order
RECURSIVE Ascending(_)
Ascending(S) ==
    IF S = {} THEN <<>>
    ELSE LET least == CHOOSE x \in S : \A y \in S : x <= y
         IN  <<least>> \o Ascending(S \ {least})

\* Draws with linked shaders.  batch is the set of the stages (positions of
\* ShaderObjectStageOrder, vertex to compute) of one vkCreateShadersEXT call of
\* linked shaders; the shader of stage i of the batch has handle i and the
\* other shaders of the batch as linked_shaders.  Its nextStage is the next
\* graphics stage of the batch ("next") or the fragment stage ("fragment").
\* Handle 10 + i is a shader of graphics stage i that is not linked.  The
\* shaders of the batch in destroyed were destroyed since (vkDestroyShaderEXT):
\* they have no state and no stage has them bound, and the linked_shaders of
\* the others still name them.
LinkedStagePositions == 1..6

\* the most shaders of one batch
MaxLinked == 3

UnlinkedHandle(i) == 10 + i

NextInBatch(batch, i) ==
    LET later == {k \in batch : k > i /\ k <= Len(graphicsStages)}
    IN  IF i > Len(graphicsStages) \/ later = {} THEN NoStage
        ELSE graphicsStages[CHOOSE k \in later : \A m \in later : k <= m]

LinkedShaderObjects(batch, kind, destroyed) ==
    [h \in (batch \ destroyed) \cup {UnlinkedHandle(i) : i \in 1..Len(graphicsStages)} |->
        IF h \in batch
        THEN ShaderObject(ShaderObjectStageOrder[h],
                          IF kind[h] = "next" THEN NextInBatch(batch, h) ELSE FRAGMENT,
                          {"LINK_STAGE"}, Ascending(batch \ {h}), <<>>, <<>>)
        ELSE PlainShaderObject(graphicsStages[h - 10])]

\* what stage i can have bound: nothing, its shader of the batch, or (a
\* graphics stage) the shader that is not linked
BindableHandles(batch, destroyed, i) ==
    {VK_NULL_HANDLE}
    \cup (IF i \in batch \ destroyed THEN {i} ELSE {})
    \cup (IF i <= Len(graphicsStages) THEN {UnlinkedHandle(i)} ELSE {})

InitDrawLinked ==
    /\ pc = "call"
    /\ api = "Draw"
    /\ NoCalls
    /\ enabled_features = AllFeatures
    /\ \E batch \in {b \in SUBSET LinkedStagePositions : Cardinality(b) <= MaxLinked} :
       \E destroyed \in {{}} \cup {{h} : h \in batch} :
          /\ \E kind \in [batch -> {"next", "fragment"}] :
                shader_objects = LinkedShaderObjects(batch, kind, destroyed)
          /\ \E s1 \in BindableHandles(batch, destroyed, 1),
                s2 \in BindableHandles(batch, destroyed, 2),
                s3 \in BindableHandles(batch, destroyed, 3),
                s4 \in BindableHandles(batch, destroyed, 4),
                s5 \in BindableHandles(batch, destroyed, 5),
                s6 \in BindableHandles(batch, destroyed, 6) :
                last_bound = [shader_object_states |->
                                <<s1, s2, s3, s4, s5, s6, VK_NULL_HANDLE, VK_NULL_HANDLE>>]
    /\ dynamic_rendering = TRUE
    /\ function = "vkCmdDraw"
    /\ msgs = <<>>

\* Draws of every kind with task and mesh shaders and a linked pair: the
\* vertex shader (handle 1) and the fragment shader (handle 2) were created
\* linked, the task shader (3) and the mesh shader (4) were not; the fragment
\* shader was destroyed since or not.  The commands are three draws of
\* vertices and the six draws of mesh tasks.
PlainDrawFunctions == {"vkCmdDraw", "vkCmdDrawIndexed", "vkCmdDrawIndirect"}

MeshLinkedShaderObjects(destroyed) ==
    [h \in {1, 2, 3, 4} \ destroyed |->
        CASE h = 1 -> ShaderObject(VERTEX, FRAGMENT, {"LINK_STAGE"}, <<2>>, <<>>, <<>>)
          [] h = 2 -> ShaderObject(FRAGMENT, NoStage, {"LINK_STAGE"}, <<1>>, <<>>, <<>>)
          [] h = 3 -> PlainShaderObject(TASK)
          [] h = 4 -> PlainShaderObject(MESH)]

InitDrawMeshLinked ==
    /\ pc = "call"
    /\ api = "Draw"
    /\ NoCalls
    /\ enabled_features = AllFeatures
    /\ \E destroyed \in {{}, {2}} :
          /\ shader_objects = MeshLinkedShaderObjects(destroyed)
          /\ \E v \in {VK_NULL_HANDLE, 1}, f \in {VK_NULL_HANDLE, 2} \ destroyed,
                t \in {VK_NULL_HANDLE, 3}, m \in {VK_NULL_HANDLE, 4} :
                last_bound = [shader_object_states |->
                                <<v, VK_NULL_HANDLE, VK_NULL_HANDLE, VK_NULL_HANDLE, f,
                                  VK_NULL_HANDLE, t, m>>]
    /\ dynamic_rendering = TRUE
    /\ function \in PlainDrawFunctions \cup MeshDrawFunctions
    /\ msgs = <<>>

\* the arrays of at most n elements of D
ArraysUpTo(D, n) == UNION {[1..k -> D] : k \in 0..n}

PushConstantRanges == {"A", "B", "C"}
SetLayouts == {"L1", "L2"}

\* Draws with a vertex shader (handle 1) and a fragment shader (handle 2) of
\* every push constant range array and descriptor set layout array, with or
\* without a geometry shader (handle 3), and with a compute shader (handle 4)
\* of other ranges and layouts bound.
ResourceShaderObjects(vr, vl, fr, fl) ==
    <<ShaderObject(VERTEX, NoStage, {}, <<>>, vr, vl),
      ShaderObject(FRAGMENT, NoStage, {}, <<>>, fr, fl),
      ShaderObject(GEOMETRY, NoStage, {}, <<>>, <<"A">>, <<"L1">>),
      ShaderObject(COMPUTE, NoStage, {}, <<>>, <<"C", "B", "A">>, <<"L2", "L1", "L2">>)>>

InitDrawResources ==
    /\ pc = "call"
    /\ api = "Draw"
    /\ NoCalls
    /\ enabled_features = AllFeatures
    /\ \E vr \in ArraysUpTo(PushConstantRanges, MaxRanges),
          fr \in ArraysUpTo(PushConstantRanges, MaxRanges),
          vl \in ArraysUpTo(SetLayouts, MaxRanges),
          fl \in ArraysUpTo(SetLayouts, MaxRanges) :
          shader_objects = ResourceShaderObjects(vr, vl, fr, fl)
    /\ \E g \in {VK_NULL_HANDLE, 3} :
          last_bound = [shader_object_states |->
                            <<1, VK_NULL_HANDLE, VK_NULL_HANDLE, g, 2, 4,
                              VK_NULL_HANDLE, VK_NULL_HANDLE>>]
    /\ dynamic_rendering = TRUE
    /\ function = "vkCmdDraw"
    /\ msgs = <<>>

\* Draws with every stage never bound ("Unbound"), bound with VK_NULL_HANDLE
\* ("ExplicitNull") or bound with a shader that is not linked ("Bound", the
\* shader of stage i has handle i), under every setting of the tessellation,
\* geometry, task and mesh features, with and without dynamic rendering.
SlotShaderObjects ==
    [i \in 1..kShaderObjectStageCount |-> PlainShaderObject(ShaderObjectStageOrder[i])]

SlotStates == {"Unbound", "ExplicitNull", "Bound"}

LastBoundOf(slots) ==
    [shader_object_states |->
        [i \in 1..kShaderObjectStageCount |->
            IF slots[i] = "Bound" THEN i ELSE VK_NULL_HANDLE],
     shader_object_bound |->
        [i \in 1..kShaderObjectStageCount |-> slots[i] # "Unbound"]]

InitDrawSlots ==
    /\ pc = "call"
    /\ api = "DrawBoundShaders"
    /\ NoCalls
    /\ \E tess \in BOOLEAN, geom \in BOOLEAN, task \in BOOLEAN, mesh \in BOOLEAN :
          enabled_features = [AllFeatures EXCEPT !.tessellationShader = tess,
                                                 !.geometryShader = geom,
                                                 !.taskShader = task, !.meshShader = mesh]
    /\ shader_objects = SlotShaderObjects
    /\ \E slots \in [1..kShaderObjectStageCount -> SlotStates] :
          /\ slots[VkShaderStageToShaderObjectStage(COMPUTE)] # "ExplicitNull"
          /\ last_bound = LastBoundOf(slots)
    /\ dynamic_rendering \in BOOLEAN
    /\ function = "vkCmdDraw"
    /\ msgs = <<>>

NextDraw == ValidateDraw

NextDrawBoundShaders == ValidateDrawBoundShaders

SpecDrawSlots == InitDrawSlots /\ [][NextDrawBoundShaders]_vars

SpecDrawMesh == InitDrawMesh /\ [][NextDraw]_vars

SpecDrawMeshLinked == InitDrawMeshLinked /\ [][NextDraw]_vars

SpecDrawLinked == InitDrawLinked /\ [][NextDraw]_vars

SpecDrawResources == InitDrawResources /\ [][NextDraw]_vars

----------------------------------------------------------------------------
(* Debug labels (layers/vk_layer_logging.h) *)

\* A const VkDebugUtilsLabelEXT* is the empty set (a null pointer) or the set
\* of one record; its pLabelName is the empty set (null) or the set of one
\* string.

\* LoggingLabel(): no name, the color 0
EmptyLabel == [name |-> "", color |-> <<0, 0, 0, 0>>]

\* LoggingLabel(const VkDebugUtilsLabelEXT *label_info)
LoggingLabel(label_info) ==
    IF label_info # {} /\ (\E info \in label_info : info.pLabelName # {})
    THEN LET info == CHOOSE x \in label_info : TRUE
         IN  [name |-> CHOOSE n \in info.pLabelName : TRUE, color |-> info.color]
    ELSE EmptyLabel

\* LoggingLabel::Empty
Empty(label) == label.name = ""

\* LoggingLabel::Export: the VkDebugUtilsLabelEXT of the label
ExportLabel(label) == [pLabelName |-> label.name, color |-> label.color]

\* a new LoggingLabelState
NewLoggingLabelState == [labels |-> <<>>, insert_label |-> EmptyLabel]

\* LoggingLabelState::Export: out[count - 1] is the insert label when it is
\* not empty, and the labels are written from the next index down, so the
\* label at position k of labels is at position (count or count - 1) - k + 1
Export(label_state) ==
    LET hasInsert == ~Empty(label_state.insert_label)
        count == Len(label_state.labels) + (IF hasInsert THEN 1 ELSE 0)
        top == IF hasInsert THEN count - 1 ELSE count
    IN  [index \in 1..count |->
            IF hasInsert /\ index = count
            THEN ExportLabel(label_state.insert_label)
            ELSE ExportLabel(label_state.labels[top - index + 1])]

\* GetLoggingLabelState: the map after the call; the pointer it returns is
\* null exactly when the key is not in that map
GetLoggingLabelState(map, key, insert) ==
    IF key \notin DOMAIN map /\ insert THEN map @@ (key :> NewLoggingLabelState) ELSE map

\* Begin that leaves the insert label as it is
BeginDebugUtilsLabel_KeepInsert(map, key, label_info) ==
    IF label_info # {} /\ (\E info \in label_info : info.pLabelName # {})
    THEN LET found == GetLoggingLabelState(map, key, TRUE)
         IN  [found EXCEPT ![key].labels = Append(@, LoggingLabel(label_info))]
    ELSE map

\* the body of BeginQueueDebugUtilsLabel and of BeginCmdDebugUtilsLabel
BeginDebugUtilsLabel(map, key, label_info) ==
    IF label_info # {} /\ (\E info \in label_info : info.pLabelName # {})
    THEN LET found == GetLoggingLabelState(map, key, TRUE)
         IN  [found EXCEPT ![key] = [labels |-> Append(@.labels, LoggingLabel(label_info)),
                                     insert_label |-> EmptyLabel]]
    ELSE map

\* the body of EndQueueDebugUtilsLabel and of EndCmdDebugUtilsLabel
EndDebugUtilsLabel(map, key) ==
    LET found == GetLoggingLabelState(map, key, FALSE)
    IN  IF key \in DOMAIN found
        THEN [found EXCEPT ![key] =
                [labels |-> IF @.labels # <<>>
                            THEN SubSeq(@.labels, 1, Len(@.labels) - 1) ELSE @.labels,
                 insert_label |-> EmptyLabel]]
        ELSE found

\* the body of InsertQueueDebugUtilsLabel and of InsertCmdDebugUtilsLabel
InsertDebugUtilsLabel(map, key, label_info) ==
    LET found == GetLoggingLabelState(map, key, TRUE)
    IN  [found EXCEPT ![key].insert_label = LoggingLabel(label_info)]

\* the body of ResetCmdDebugUtilsLabel
ResetDebugUtilsLabel(map, key) ==
    LET found == GetLoggingLabelState(map, key, FALSE)
    IN  IF key \in DOMAIN found
        THEN [found EXCEPT ![key] = NewLoggingLabelState]
        ELSE found

\* the queue and the command buffer of the calls
TheQueue == 1
TheCommandBuffer == 1

\* the label_info arguments: a null pointer, a null name, the empty name and
\* two names with a color each
LabelInfos ==
    {{},
     {[pLabelName |-> {}, color |-> <<1, 1, 1, 1>>]},
     {[pLabelName |-> {""}, color |-> <<1, 1, 1, 1>>]},
     {[pLabelName |-> {"a"}, color |-> <<1, 0, 0, 1>>]},
     {[pLabelName |-> {"b"}, color |-> <<0, 0, 1, 1>>]}}

\* the record of a call: the operation, its label_info and whether the map
\* after the call differs from the map before
LabelCall(op, label_info, before, after) ==
    [op |-> op, label_info |-> label_info, changed |-> after # before]

ValidationUnchanged ==
    UNCHANGED <<pc, api, enabled_features, pCreateInfos, shader_objects, pStages, pShaders,
                queue_flags, last_bound, dynamic_rendering, function, msgs>>

BeginQueueDebugUtilsLabel ==
    /\ api = "QueueLabels"
    /\ Len(label_calls) < MaxLabelCalls
    /\ \E label_info \in LabelInfos :
          LET after == BeginDebugUtilsLabel(debugUtilsQueueLabels, TheQueue, label_info)
          IN  /\ debugUtilsQueueLabels' = after
              /\ label_calls' = Append(label_calls,
                                       LabelCall("Begin", label_info, debugUtilsQueueLabels, after))
    /\ UNCHANGED debugUtilsCmdBufLabels
    /\ ValidationUnchanged

EndQueueDebugUtilsLabel ==
    /\ api = "QueueLabels"
    /\ Len(label_calls) < MaxLabelCalls
    /\ LET after == EndDebugUtilsLabel(debugUtilsQueueLabels, TheQueue)
       IN  /\ debugUtilsQueueLabels' = after
           /\ label_calls' = Append(label_calls,
                                    LabelCall("End", {}, debugUtilsQueueLabels, after))
    /\ UNCHANGED debugUtilsCmdBufLabels
    /\ ValidationUnchanged

InsertQueueDebugUtilsLabel ==
    /\ api = "QueueLabels"
    /\ Len(label_calls) < MaxLabelCalls
    /\ \E label_info \in LabelInfos :
          LET after == InsertDebugUtilsLabel(debugUtilsQueueLabels, TheQueue, label_info)
          IN  /\ debugUtilsQueueLabels' = after
              /\ label_calls' = Append(label_calls,
                                       LabelCall("Insert", label_info, debugUtilsQueueLabels, after))
    /\ UNCHANGED debugUtilsCmdBufLabels
    /\ ValidationUnchanged

BeginCmdDebugUtilsLabel ==
    /\ api = "CmdBufLabels"
    /\ Len(label_calls) < MaxLabelCalls
    /\ \E label_info \in LabelInfos :
          LET after == BeginDebugUtilsLabel(debugUtilsCmdBufLabels, TheCommandBuffer, label_info)
          IN  /\ debugUtilsCmdBufLabels' = after
              /\ label_calls' = Append(label_calls,
                                       LabelCall("Begin", label_info, debugUtilsCmdBufLabels, after))
    /\ UNCHANGED debugUtilsQueueLabels
    /\ ValidationUnchanged

EndCmdDebugUtilsLabel ==
    /\ api = "CmdBufLabels"
    /\ Len(label_calls) < MaxLabelCalls
    /\ LET after == EndDebugUtilsLabel(debugUtilsCmdBufLabels, TheCommandBuffer)
       IN  /\ debugUtilsCmdBufLabels' = after
           /\ label_calls' = Append(label_calls,
                                    LabelCall("End", {}, debugUtilsCmdBufLabels, after))
    /\ UNCHANGED debugUtilsQueueLabels
    /\ ValidationUnchanged

InsertCmdDebugUtilsLabel ==
    /\ api = "CmdBufLabels"
    /\ Len(label_calls) < MaxLabelCalls
    /\ \E label_info \in LabelInfos :
          LET after == InsertDebugUtilsLabel(debugUtilsCmdBufLabels, TheCommandBuffer, label_info)
          IN  /\ debugUtilsCmdBufLabels' = after
              /\ label_calls' = Append(label_calls,
                                       LabelCall("Insert", label_info, debugUtilsCmdBufLabels, after))
    /\ UNCHANGED debugUtilsQueueLabels
    /\ ValidationUnchanged

ResetCmdDebugUtilsLabel ==
    /\ api = "CmdBufLabels"
    /\ Len(label_calls) < MaxLabelCalls
    /\ LET after == ResetDebugUtilsLabel(debugUtilsCmdBufLabels, TheCommandBuffer)
       IN  /\ debugUtilsCmdBufLabels' = after
           /\ label_calls' = Append(label_calls,
                                    LabelCall("Reset", {}, debugUtilsCmdBufLabels, after))
    /\ UNCHANGED debugUtilsQueueLabels
    /\ ValidationUnchanged

\* Sequences of at most MaxLabelCalls debug-label calls on one queue, or on
\* one command buffer, that has no label state yet.
InitLabels ==
    /\ pc = "labels"
    /\ api \in {"QueueLabels", "CmdBufLabels"}
    /\ enabled_features = AllFeatures
    /\ NoCreateCall
    /\ NoBindCall
    /\ last_bound = [shader_object_states |-> <<>>]
    /\ dynamic_rendering = TRUE
    /\ function = "none"
    /\ msgs = <<>>
    /\ NoLabelCall

NextLabels ==
    \/ BeginQueueDebugUtilsLabel
    \/ EndQueueDebugUtilsLabel
    \/ InsertQueueDebugUtilsLabel
    \/ BeginCmdDebugUtilsLabel
    \/ EndCmdDebugUtilsLabel
    \/ InsertCmdDebugUtilsLabel
    \/ ResetCmdDebugUtilsLabel

SpecLabels == InitLabels /\ [][NextLabels]_vars

----------------------------------------------------------------------------
(* Properties of the linking checks of vkCreateShadersEXT *)

Validated(call) == pc = "done" /\ api = call

Linked(infos) == {i \in 1..Len(infos) : "LINK_STAGE" \in infos[i].flags}

\* the messages with this VUID located at array position i
MsgsAt(ms, vuid, i) == {k \in 1..Len(ms) : ms[k].vuid = vuid /\ ms[k].loc = i}

\* the violations of the linking rules of a batch: next stage of a linked
\* stage, duplicate linked stage, linked with non-linked, vertex with
\* task/mesh, task with a no-task mesh, SPIR-V with binary
LinkingVuids == {8409, 8410, 8402, 8403, 8404, 8405, 8411}

\* the violations of the per-stage next-stage masks
NextStageMaskVuids == {8430, 8431, 8433, 8434, 8435, 8436}

StructuralVuids == LinkingVuids \cup NextStageMaskVuids

ExactlyOneLinked == Cardinality(Linked(pCreateInfos)) = 1

\* C1 as stated: every creation batch with exactly one descriptor carrying
\* LinkStage is reported at least one structural violation.
C1_Original ==
    (Validated("CreateShaders") /\ ExactlyOneLinked)
        => CountMsgs(msgs, StructuralVuids) >= 1

\* a descriptor without LinkStage on the graphics or the mesh chain, or a
\* descriptor after the linked one with the linked one's stage
MixedWithTheOneLinked ==
    LET infos == pCreateInfos
        l == CHOOSE i \in Linked(infos) : TRUE
    IN  \/ \E i \in 1..Len(infos) :
              /\ "LINK_STAGE" \notin infos[i].flags
              /\ infos[i].stage \in {VERTEX, TESC, TESE, GEOMETRY, FRAGMENT, TASK, MESH}
        \/ \E j \in (l + 1)..Len(infos) : infos[j].stage = infos[l].stage

\* C1, amended: a creation batch with exactly one descriptor carrying LinkStage
\* is reported a linking violation (08402, 08403, 08404, 08405, 08409, 08410 or
\* 08411) if and only if it also holds a descriptor without LinkStage whose
\* stage is on the graphics or the mesh chain, or a later descriptor with the
\* linked descriptor's stage; the linked descriptor alone is reported none.
C1_OneLinkedRejectedIffMixed ==
    (Validated("CreateShaders") /\ ExactlyOneLinked)
        => (CountMsgs(msgs, LinkingVuids) >= 1 <=> MixedWithTheOneLinked)

C1_Witness ==
    /\ Validated("CreateShaders") /\ ExactlyOneLinked
    /\ Len(pCreateInfos) = 2
    /\ MixedWithTheOneLinked
    /\ HasMsg(msgs, 8402)

\* the chain of a stage, as the claim gives it
ChainOf(stage) ==
    IF stage \in {VERTEX, TESC, TESE, GEOMETRY, FRAGMENT}
    THEN <<VERTEX, TESC, TESE, GEOMETRY, FRAGMENT>>
    ELSE IF stage \in {TASK, MESH} THEN <<TASK, MESH, FRAGMENT>>
    ELSE <<>>

\* the positions, after the stage's own in its chain, of stages some
\* descriptor of the batch has
LaterPresent(infos, stage) ==
    LET chain == ChainOf(stage)
    IN  {k \in 1..Len(chain) :
            /\ \E p \in 1..(k - 1) : chain[p] = stage
            /\ \E i \in 1..Len(infos) : infos[i].stage = chain[k]}

ExpectedExists(infos, stage) == LaterPresent(infos, stage) # {}

Expected(infos, stage) ==
    LET later == LaterPresent(infos, stage)
    IN  IF later = {} THEN NoStage
        ELSE ChainOf(stage)[CHOOSE k \in later : \A m \in later : k <= m]

NextStageViolation(infos, i) ==
    /\ ExpectedExists(infos, infos[i].stage)
    /\ infos[i].nextStage # Expected(infos, infos[i].stage)

SameStagePairs(infos) ==
    {p \in (1..Len(infos)) \X (1..Len(infos)) :
        p[1] < p[2] /\ infos[p[1]].stage = infos[p[2]].stage}

\* C4: when exactly two descriptors i < j of the batch declare the same stage
\* and both carry LinkStage, exactly one duplicate-stage violation 08410 is
\* logged, and it names the pair (i, j).
C4_DuplicateLinkedStageOnce ==
    Validated("CreateShaders") =>
        \A p \in SameStagePairs(pCreateInfos) :
            (SameStagePairs(pCreateInfos) = {p} /\ {p[1], p[2]} \subseteq Linked(pCreateInfos))
                => /\ CountMsgs(msgs, {8410}) = 1
                   /\ \E k \in 1..Len(msgs) : msgs[k] = Msg(8410, p[1], <<p[2]>>)

C4_Witness ==
    /\ Validated("CreateShaders")
    /\ SameStagePairs(pCreateInfos) = {<<1, 2>>}
    /\ {1, 2} \subseteq Linked(pCreateInfos)
    /\ CountMsgs(msgs, {8410}) = 1

\* the allowed next stages the claim gives, and the VUID of the stage's rule;
\* the vertex stage has neither
HasAllowedMask(stage) == stage \in {TESC, TESE, GEOMETRY, TASK, MESH, FRAGMENT, COMPUTE}

AllowedNextStages(stage) ==
    IF stage = TESC THEN TESE
    ELSE IF stage = TESE THEN GEOMETRY \cup FRAGMENT
    ELSE IF stage = GEOMETRY THEN FRAGMENT
    ELSE IF stage = TASK THEN MESH
    ELSE IF stage = MESH THEN FRAGMENT
    ELSE {}

\* the messages of the next-stage masks located at array position i
MaskMsgsAt(ms, i) == {k \in 1..Len(ms) : ms[k].vuid \in NextStageMaskVuids /\ ms[k].loc = i}

\* C7: for every descriptor, with or without LinkStage, of a stage with an
\* allowed-successor mask (tess-control, tess-eval, geometry, task, mesh,
\* fragment, compute), a next-stage mask violation is reported (once) if and
\* only if declaredNextStage has a bit outside the mask; none is reported for
\* a vertex descriptor.
C7_NextStageMask ==
    Validated("CreateShaders") =>
        \A i \in 1..Len(pCreateInfos) :
            LET info == pCreateInfos[i]
            IN  Cardinality(MaskMsgsAt(msgs, i))
                    = (IF HasAllowedMask(info.stage)
                          /\ ~(info.nextStage \subseteq AllowedNextStages(info.stage))
                       THEN 1 ELSE 0)

\* a tess-eval descriptor without LinkStage that declares an allowed and a
\* forbidden bit, and is reported 08431
C7_Witness ==
    /\ Validated("CreateShaders")
    /\ \E i \in 1..Len(pCreateInfos) :
          /\ pCreateInfos[i].stage = TESE
          /\ pCreateInfos[i].flags = {}
          /\ pCreateInfos[i].nextStage = GEOMETRY \cup MESH
          /\ MsgsAt(msgs, 8431, i) # {}

InterfaceVuids == {8867, 8868, 8869, 8870}

LinkedSpirv(infos, stage) ==
    \E i \in 1..Len(infos) :
        /\ infos[i].stage = stage
        /\ "LINK_STAGE" \in infos[i].flags
        /\ infos[i].codeType = "SPIRV"

\* C5: the interface-agreement violations 08867, 08868, 08869 and 08870 are
\* reported only when the batch holds both a linked source-IR tess-control
\* descriptor and a linked source-IR tess-eval descriptor.
C5_InterfaceOnlyWithBoth ==
    (Validated("CreateShaders") /\ CountMsgs(msgs, InterfaceVuids) >= 1)
        => (LinkedSpirv(pCreateInfos, TESC) /\ LinkedSpirv(pCreateInfos, TESE))

----------------------------------------------------------------------------
(* Properties of vkCmdBindShadersEXT *)

\* the call names the stage with a shader that is not null
NamedNonNull(stage) ==
    \E i \in 1..Len(pStages) : pStages[i] = stage /\ ShaderAt(pShaders, i) # VK_NULL_HANDLE

\* C10: a bind call that names the vertex stage with a non-null shader and the
\* task stage with a non-null shader is reported 08470 exactly once, wherever
\* the two entries are in the arrays, and the same holds for vertex with mesh
\* and 08471; when the vertex or the other shader is null, it is not reported.
C10_VertexTaskMeshExclusive ==
    Validated("BindShaders") =>
        /\ CountMsgs(msgs, {8470})
              = (IF NamedNonNull(VERTEX) /\ NamedNonNull(TASK) THEN 1 ELSE 0)
        /\ CountMsgs(msgs, {8471})
              = (IF NamedNonNull(VERTEX) /\ NamedNonNull(MESH) THEN 1 ELSE 0)

\* the task entry comes first, the vertex entry second
C10_Witness ==
    /\ Validated("BindShaders")
    /\ pStages = <<TASK, VERTEX>>
    /\ pShaders = <<2, 1>>
    /\ CountMsgs(msgs, {8470}) = 1

----------------------------------------------------------------------------
(* Properties of the draw-time checks *)

\* the validation of the draw has ended: it returned, or it ended in the
\* dereference of the null missingShader
DrawEnded == api = "Draw" /\ pc # "call"

\* the stages (positions of shader_object_states) that have a shader bound
BoundSlots == {i \in 1..kShaderObjectStageCount : GetShader(last_bound, i) # VK_NULL_HANDLE}

\* the state bound to the stage
BoundState(i) == shader_objects[GetShader(last_bound, i)]

BothMeshFeatures == enabled_features.taskShader /\ enabled_features.meshShader

MeshSlot == VkShaderStageToShaderObjectStage(MESH)
TaskSlot == VkShaderStageToShaderObjectStage(TASK)

\* a mesh shader created without NO_TASK_SHADER is bound and no task shader is
MeshNeedsTask ==
    /\ MeshSlot \in BoundSlots
    /\ "NO_TASK_SHADER" \notin BoundState(MeshSlot).create_info.flags
    /\ TaskSlot \notin BoundSlots

\* a mesh shader created with NO_TASK_SHADER is bound and a task shader is too
MeshForbidsTask ==
    /\ MeshSlot \in BoundSlots
    /\ "NO_TASK_SHADER" \in BoundState(MeshSlot).create_info.flags
    /\ TaskSlot \in BoundSlots

\* C6, as the claim states it: at every draw-time validation, a bound mesh
\* shader created without NO_TASK_SHADER and no bound task shader is reported
\* 08694, and a bound mesh shader created with NO_TASK_SHADER and a bound task
\* shader is reported 08695.
C6_Original ==
    DrawEnded =>
        /\ MeshNeedsTask => HasMsg(msgs, 8694)
        /\ MeshForbidsTask => HasMsg(msgs, 8695)

\* C6, amended: the two reports are made when both the taskShader and the
\* meshShader features are enabled, and only then: 08694 is reported exactly
\* when both are enabled, a mesh shader created without NO_TASK_SHADER is
\* bound and no task shader is bound; 08695 exactly when both are enabled, a
\* mesh shader created with NO_TASK_SHADER is bound and a task shader is bound.
C6_TaskMeshPairing ==
    DrawEnded =>
        /\ HasMsg(msgs, 8694) <=> (BothMeshFeatures /\ MeshNeedsTask)
        /\ HasMsg(msgs, 8695) <=> (BothMeshFeatures /\ MeshForbidsTask)

\* both features enabled, the mesh shader that needs a task shader bound alone
C6_Witness ==
    /\ Validated("Draw")
    /\ BothMeshFeatures
    /\ MeshNeedsTask
    /\ HasMsg(msgs, 8694)
    /\ ~HasMsg(msgs, 8695)

\* the graphics stages (positions of graphics_stages) that have a shader bound
ChainBound ==
    {g \in 1..Len(graphicsStages) :
        VkShaderStageToShaderObjectStage(graphicsStages[g]) \in BoundSlots}

ChainState(g) == BoundState(VkShaderStageToShaderObjectStage(graphicsStages[g]))

\* the shader bound at stage g has a linked shader that was created with the
\* stage its nextStage names
HasLinkedNextStage(g) ==
    \E k \in 1..Len(ChainState(g).linked_shaders) :
        \E peer \in GetShaderObject(shader_objects, ChainState(g).linked_shaders[k]) :
            peer.create_info.stage = ChainState(g).create_info.nextStage

\* m is the next bound stage after g in the order of the chain
NextBoundAfter(g, m) ==
    /\ m \in ChainBound
    /\ m > g
    /\ \A h \in ChainBound : h > g => m <= h

\* stage g is bound with a linked next stage, and the next bound stage is
\* another one
MissingIntermediate(g) ==
    /\ g \in ChainBound
    /\ HasLinkedNextStage(g)
    /\ \E m \in ChainBound :
          NextBoundAfter(g, m) /\ graphicsStages[m] # ChainState(g).create_info.nextStage

\* the next bound stage after g is the stage its nextStage names
DirectlyFollowed(g) ==
    \E m \in ChainBound :
        NextBoundAfter(g, m) /\ graphicsStages[m] = ChainState(g).create_info.nextStage

\* C8: walking the chain vertex, tess-control, tess-eval, geometry, fragment
\* over the bound stages, 08699 is reported when a bound shader has a linked
\* shader created with the stage its nextStage names and the next bound stage
\* of the chain is another stage; it is not reported when every such shader
\* is directly followed, among the bound stages, by its nextStage.
C8_MissingIntermediateLink ==
    DrawEnded =>
        /\ (\E g \in 1..Len(graphicsStages) : MissingIntermediate(g)) => HasMsg(msgs, 8699)
        /\ (\A g \in ChainBound : HasLinkedNextStage(g) => DirectlyFollowed(g))
              => ~HasMsg(msgs, 8699)

\* the same for the validations that return, with the number of reports
C8_WhenReturned ==
    Validated("Draw") =>
        CountMsgs(msgs, {8699})
            = (IF \E g \in 1..Len(graphicsStages) : MissingIntermediate(g) THEN 1 ELSE 0)

\* vertex (nextStage geometry), geometry and fragment were linked and the
\* fragment shader was destroyed; vertex and geometry are bound with a
\* tess-control shader that is not linked between them: the validation ends
\* at the linked fragment shader of the vertex shader, before the walk
C8_FaultBeforeWalk ==
    /\ api = "Draw"
    /\ pc = "fault"
    /\ last_bound.shader_object_states
          = <<1, UnlinkedHandle(2), VK_NULL_HANDLE, 4, VK_NULL_HANDLE, VK_NULL_HANDLE,
              VK_NULL_HANDLE, VK_NULL_HANDLE>>
    /\ shader_objects[1].linked_shaders = <<4, 5>>
    /\ shader_objects[1].create_info.nextStage = GEOMETRY
    /\ GetShaderObject(shader_objects, 5) = {}
    /\ MissingIntermediate(1)
    /\ ~HasMsg(msgs, 8699)

\* a validation that returns with a missing intermediate stage reported
C8_ReportedWhenReturned ==
    /\ Validated("Draw")
    /\ last_bound.shader_object_states
          = <<1, VK_NULL_HANDLE, VK_NULL_HANDLE, UnlinkedHandle(4), 5, VK_NULL_HANDLE,
              VK_NULL_HANDLE, VK_NULL_HANDLE>>
    /\ shader_objects[1].linked_shaders = <<5>>
    /\ MissingIntermediate(1)
    /\ CountMsgs(msgs, {8699}) = 1

\* the handle is bound at some stage
IsBound(shader) == \E j \in BoundSlots : GetShader(last_bound, j) = shader

\* a linked shader of the shader bound at stage i is not bound
LinkBroken(i) ==
    \E k \in 1..Len(BoundState(i).linked_shaders) : ~IsBound(BoundState(i).linked_shaders[k])

\* C9: when the validation of a draw ends, for every bound shader other than
\* the compute shader that has linked shaders, 08698 is reported for it if and
\* only if one of its linked shaders is bound at no stage; when the linked
\* shaders of all bound shaders are bound, 08698 is not reported.
C9_BrokenLink ==
    DrawEnded =>
        /\ \A i \in BoundSlots \ {VkShaderStageToShaderObjectStage(COMPUTE)} :
              BoundState(i).linked_shaders # <<>>
                  => ((\E k \in 1..Len(msgs) : msgs[k].vuid = 8698 /\ msgs[k].args[1] = i)
                          <=> LinkBroken(i))
        /\ (\A i \in BoundSlots : ~LinkBroken(i)) => ~HasMsg(msgs, 8698)

\* the same for the validations that return
C9_WhenReturned ==
    Validated("Draw") => C9_BrokenLink

\* vertex and fragment were linked and the fragment shader was destroyed; the
\* vertex shader is bound alone: the validation ends at the read of the stage
\* of the missing shader, with nothing reported
C9_FaultAtMissingShader ==
    /\ api = "Draw"
    /\ pc = "fault"
    /\ last_bound.shader_object_states
          = <<1, VK_NULL_HANDLE, VK_NULL_HANDLE, VK_NULL_HANDLE, VK_NULL_HANDLE,
              VK_NULL_HANDLE, VK_NULL_HANDLE, VK_NULL_HANDLE>>
    /\ shader_objects[1].linked_shaders = <<5>>
    /\ GetShaderObject(shader_objects, 5) = {}
    /\ LinkBroken(1)
    /\ ~HasMsg(msgs, 8698)

\* the elements of an array, as a set
Elements(array) == {array[k] : k \in 1..Len(array)}

\* the stages that have a graphics shader bound
GraphicsBound == {i \in BoundSlots : IsGraphicsShaderState(BoundState(i))}

PushConstantsDisagree ==
    \E i \in GraphicsBound, j \in GraphicsBound :
        Elements(BoundState(i).create_info.pPushConstantRanges)
            # Elements(BoundState(j).create_info.pPushConstantRanges)

SetLayoutsDisagree ==
    \E i \in GraphicsBound, j \in GraphicsBound :
        Elements(BoundState(i).create_info.pSetLayouts)
            # Elements(BoundState(j).create_info.pSetLayouts)

\* C2: at draw time 08878 is reported whenever two of the bound graphics
\* shaders have push constant ranges that are not the same set, 08879 whenever
\* two of them have descriptor set layouts that are not the same set, and
\* neither is reported when all the bound graphics shaders agree.
C2_ResourceMismatch ==
    Validated("Draw") =>
        /\ PushConstantsDisagree => HasMsg(msgs, 8878)
        /\ SetLayoutsDisagree => HasMsg(msgs, 8879)
        /\ (~PushConstantsDisagree /\ ~SetLayoutsDisagree)
              => (~HasMsg(msgs, 8878) /\ ~HasMsg(msgs, 8879))

\* the arrays are of the same length and the first element of the second is
\* in the first, and the shaders disagree on a later element
C2_FoundNotReset ==
    /\ Validated("Draw")
    /\ BoundState(1).create_info.pPushConstantRanges = <<"A", "B">>
    /\ BoundState(5).create_info.pPushConstantRanges = <<"A", "C">>
    /\ ~HasMsg(msgs, 8878)

\* the number of 08463 messages located at position i that print position j
DuplicateReports(i, j) ==
    Cardinality({k \in 1..Len(msgs) :
                    msgs[k].vuid = 8463 /\ msgs[k].loc = i /\ msgs[k].args = <<j>>})

\* C11: a bind call with the stage list [vertex, vertex] is reported exactly
\* one 08463, whatever the shaders; in general each pair of positions i < j
\* that hold the same stage is reported once, at position i with j printed,
\* and not again at position j, so the 08463 reports are as many as the pairs.
C11_DuplicateStageOncePerPair ==
    Validated("BindShaders") =>
        /\ \A i \in 1..Len(pStages), j \in 1..Len(pStages) :
              DuplicateReports(i, j) = (IF i < j /\ pStages[i] = pStages[j] THEN 1 ELSE 0)
        /\ CountMsgs(msgs, {8463})
              = Cardinality({p \in (1..Len(pStages)) \X (1..Len(pStages)) :
                                p[1] < p[2] /\ pStages[p[1]] = pStages[p[2]]})
        /\ pStages = <<VERTEX, VERTEX>> => CountMsgs(msgs, {8463}) = 1

\* the stage list [vertex, vertex] with two shaders
C11_Witness ==
    /\ Validated("BindShaders")
    /\ pStages = <<VERTEX, VERTEX>>
    /\ pShaders = <<1, 1>>
    /\ DuplicateReports(1, 2) = 1
    /\ DuplicateReports(2, 1) = 0
    /\ CountMsgs(msgs, {8463}) = 1

----------------------------------------------------------------------------
(* The batch of a linked tess-control and a linked tess-eval shader *)

\* the position of the descriptor of the stage in the batch of two
PairIndex(stage) == CHOOSE i \in 1..Len(pCreateInfos) : pCreateInfos[i].stage = stage

\* the execution modes of the entry point of the descriptor of the stage
PairMode(stage) ==
    (CHOOSE e \in pCreateInfos[PairIndex(stage)].entrypoint : TRUE).execution_mode

\* the batch is the two linked SPIR-V descriptors, tessellation enabled
IsTessPair ==
    /\ api = "CreateShaders"
    /\ Len(pCreateInfos) = 2
    /\ {pCreateInfos[1].stage, pCreateInfos[2].stage} = {TESC, TESE}
    /\ \A i \in 1..2 :
          /\ pCreateInfos[i].flags = {"LINK_STAGE"}
          /\ pCreateInfos[i].codeType = "SPIRV"
          /\ pCreateInfos[i].entrypoint # NoEntryPoint
          /\ pCreateInfos[i].nextStage = (IF pCreateInfos[i].stage = TESC THEN TESE ELSE NoStage)
    /\ enabled_features.tessellationShader

\* the two entry points declare the criterion (a field of execution_mode)
\* with the same value
DeclaredAndMatching(criterion) ==
    /\ PairMode(TESC)[criterion] # 0
    /\ PairMode(TESC)[criterion] = PairMode(TESE)[criterion]

\* what the two scenarios leave open: the shaderObject feature is enabled,
\* tess-control declares point mode only if tess-eval does, and a declared
\* patch size is between 1 and the limit
RestOfPairLegal ==
    /\ enabled_features.shaderObject
    /\ PairMode(TESC).point_mode => PairMode(TESE).point_mode
    /\ \A stage \in {TESC, TESE} :
          \/ PairMode(stage).output_vertices = kU32Max
          \/ PairMode(stage).output_vertices \in 1..maxTessellationPatchSize

\* tess-eval declares no subdivision; orientation and spacing are declared by
\* both and match
NoSubdivisionScenario ==
    /\ IsTessPair
    /\ PairMode(TESC).tessellation_subdivision # 0
    /\ PairMode(TESE).tessellation_subdivision = 0
    /\ DeclaredAndMatching("tessellation_orientation")
    /\ DeclaredAndMatching("tessellation_spacing")

\* exactly one violation, located at the tess-eval descriptor
OneViolationAtTessEval ==
    /\ Len(msgs) = 1
    /\ msgs[1].loc = PairIndex(TESE)

\* C12, as the claim states it: the batch in which tess-eval declares no
\* subdivision (orientation and spacing declared and matching) is reported
\* exactly one violation, and it refers to the index of the tess-eval
\* descriptor.
C12_Original ==
    (Validated("CreateShaders") /\ NoSubdivisionScenario) => OneViolationAtTessEval

\* C12, amended: the same when moreover the shaderObject feature is enabled,
\* tess-control does not declare point mode without tess-eval declaring it,
\* and the declared patch sizes are between 1 and the limit; the violation is
\* 08872.
C12_NoSubdivisionOneViolation ==
    (Validated("CreateShaders") /\ NoSubdivisionScenario /\ RestOfPairLegal)
        => (OneViolationAtTessEval /\ msgs[1].vuid = 8872)

\* the tess-eval descriptor comes second and is the one reported
C12_Witness ==
    /\ Validated("CreateShaders")
    /\ NoSubdivisionScenario
    /\ RestOfPairLegal
    /\ PairIndex(TESE) = 2
    /\ msgs = <<Msg(8872, 2, <<>>)>>

\* both entry points declare subdivision, orientation and spacing, with the
\* same values
AllMatchingScenario ==
    /\ IsTessPair
    /\ DeclaredAndMatching("tessellation_subdivision")
    /\ DeclaredAndMatching("tessellation_orientation")
    /\ DeclaredAndMatching("tessellation_spacing")

\* C13, as the claim states it: the batch in which both entry points declare
\* matching subdivision, orientation and spacing is reported no violation.
C13_Original ==
    (Validated("CreateShaders") /\ AllMatchingScenario) => msgs = <<>>

\* C13, amended: the same when moreover the shaderObject feature is enabled,
\* tess-control does not declare point mode without tess-eval declaring it,
\* and the declared patch sizes are between 1 and the limit.
C13_MatchingPairAccepted ==
    (Validated("CreateShaders") /\ AllMatchingScenario /\ RestOfPairLegal) => msgs = <<>>

\* orientation and spacing are declared with different values from each
\* other, the same in both stages; both declare point mode and a patch size
C13_Witness ==
    /\ Validated("CreateShaders")
    /\ AllMatchingScenario
    /\ RestOfPairLegal
    /\ PairMode(TESC).tessellation_orientation = 1
    /\ PairMode(TESC).tessellation_spacing = 2
    /\ PairMode(TESC).point_mode
    /\ PairMode(TESC).output_vertices = 3
    /\ msgs = <<>>

\* 1 if the condition holds, 0 if not
One(cond) == IF cond THEN 1 ELSE 0

\* the stages declare different values of the criterion
Differ(criterion) == PairMode(TESC)[criterion] # PairMode(TESE)[criterion]

\* both entry points declare subdivision, orientation and spacing
BothDeclareAll ==
    /\ IsTessPair
    /\ \A stage \in {TESC, TESE} :
          /\ PairMode(stage).tessellation_subdivision # 0
          /\ PairMode(stage).tessellation_orientation # 0
          /\ PairMode(stage).tessellation_spacing # 0

\* C20: when the linked tess-control and the linked tess-eval descriptor both
\* declare subdivision, orientation and spacing, the cross-stage violations
\* (08867, 08868, 08869, 08870) are as many as the criteria among subdivision,
\* orientation and spacing whose values differ, plus one if tess-control
\* declares point mode and tess-eval does not; each criterion has its own.
C20_OneViolationPerCriterion ==
    (Validated("CreateShaders") /\ BothDeclareAll) =>
        /\ CountMsgs(msgs, InterfaceVuids)
              = One(Differ("tessellation_subdivision")) + One(Differ("tessellation_orientation"))
                + One(Differ("tessellation_spacing"))
                + One(PairMode(TESC).point_mode /\ ~PairMode(TESE).point_mode)
        /\ CountMsgs(msgs, {8867}) = One(Differ("tessellation_subdivision"))
        /\ CountMsgs(msgs, {8868}) = One(Differ("tessellation_orientation"))
        /\ CountMsgs(msgs, {8870}) = One(Differ("tessellation_spacing"))
        /\ CountMsgs(msgs, {8869}) = One(PairMode(TESC).point_mode /\ ~PairMode(TESE).point_mode)

\* the four criteria all differ and four violations are reported
C20_Witness ==
    /\ Validated("CreateShaders")
    /\ BothDeclareAll
    /\ Differ("tessellation_subdivision")
    /\ Differ("tessellation_orientation")
    /\ Differ("tessellation_spacing")
    /\ PairMode(TESC).point_mode /\ ~PairMode(TESE).point_mode
    /\ CountMsgs(msgs, InterfaceVuids) = 4

----------------------------------------------------------------------------
(* The draw with a mesh shader created with NO_TASK_SHADER and a task shader *)

VertexSlot == VkShaderStageToShaderObjectStage(VERTEX)

\* C15, as the claim states it: a draw-time state in which a mesh shader
\* created with NO_TASK_SHADER and a task shader are bound is reported exactly
\* one violation, 08695.
C15_Original ==
    (DrawEnded /\ MeshForbidsTask) => (Len(msgs) = 1 /\ msgs[1].vuid = 8695)

\* the vkCmdDrawMeshTasks* commands of the NV and the EXT extension
MeshTasksCommands ==
    {"vkCmdDrawMeshTasks" \o suffix \o vendor :
        suffix \in {"", "Indirect", "IndirectCount"}, vendor \in {"NV", "EXT"}}

\* what the scenario leaves open: both features are enabled, no vertex shader
\* is bound, dynamic rendering is active and the command is a mesh draw
MeshDrawLegal ==
    /\ BothMeshFeatures
    /\ VertexSlot \notin BoundSlots
    /\ dynamic_rendering
    /\ function \in MeshTasksCommands

\* C15, amended: the same when the task and the mesh feature are both
\* enabled, no vertex shader is bound, dynamic rendering is active and the
\* command is one of the mesh draw commands (the bound shaders having no
\* linked shaders and the same push constant ranges and set layouts).
C15_OnlyTaskWithNoTaskShader ==
    (DrawEnded /\ MeshForbidsTask /\ MeshDrawLegal) => (Len(msgs) = 1 /\ msgs[1].vuid = 8695)

\* the mesh shader with NO_TASK_SHADER, the task shader and a fragment shader
C15_Witness ==
    /\ Validated("Draw")
    /\ MeshForbidsTask
    /\ MeshDrawLegal
    /\ GetShader(last_bound, VkShaderStageToShaderObjectStage(FRAGMENT)) # VK_NULL_HANDLE
    /\ msgs = <<Msg(8695, 0, <<>>)>>

----------------------------------------------------------------------------
(* The draw with a vertex shader and no fragment shader *)

\* the stage was never bound; it was bound with VK_NULL_HANDLE
Unbound(stage) ==
    ~IsValidShaderOrNullBound(last_bound, VkShaderStageToShaderObjectStage(stage))
ExplicitNull(stage) ==
    /\ IsValidShaderOrNullBound(last_bound, VkShaderStageToShaderObjectStage(stage))
    /\ GetShader(last_bound, VkShaderStageToShaderObjectStage(stage)) = VK_NULL_HANDLE
ShaderBound(stage) ==
    GetShader(last_bound, VkShaderStageToShaderObjectStage(stage)) # VK_NULL_HANDLE

\* a vertex shader is bound, the fragment stage is bound with no shader, the
\* task and mesh features are disabled and dynamic rendering is active
MinimalGraphics ==
    /\ api = "DrawBoundShaders"
    /\ ShaderBound(VERTEX)
    /\ ExplicitNull(FRAGMENT)
    /\ ~enabled_features.taskShader
    /\ ~enabled_features.meshShader
    /\ dynamic_rendering

\* C14, as the claim states it: the state with a vertex shader bound, the
\* fragment slot ExplicitNull, the mesh and task features disabled and dynamic
\* rendering active is reported nothing by ValidateShaderObjectBoundShader and
\* ValidateDrawShaderObject.
C14_Original ==
    (pc # "call" /\ MinimalGraphics) => msgs = <<>>

\* what the scenario leaves open: the tess-control and tess-eval stages are
\* not Unbound if the tessellation feature is enabled, nor the geometry stage
\* if the geometry feature is, and no task or mesh shader is bound
OtherStagesLegal ==
    /\ enabled_features.tessellationShader => (~Unbound(TESC) /\ ~Unbound(TESE))
    /\ enabled_features.geometryShader => ~Unbound(GEOMETRY)
    /\ ~ShaderBound(TASK)
    /\ ~ShaderBound(MESH)

\* C14, amended: the same when moreover the tess-control, tess-eval and
\* geometry slots are ExplicitNull or bound wherever their feature is enabled
\* and no task or mesh shader is bound (the bound shaders having no linked
\* shaders and the same push constant ranges and set layouts).
C14_MinimalGraphicsAccepted ==
    (pc # "call" /\ MinimalGraphics /\ OtherStagesLegal) => msgs = <<>>

\* tessellation is enabled with both slots ExplicitNull, the geometry feature
\* is disabled and its slot was never bound
C14_Witness ==
    /\ pc = "done"
    /\ MinimalGraphics
    /\ OtherStagesLegal
    /\ enabled_features.tessellationShader
    /\ ExplicitNull(TESC) /\ ExplicitNull(TESE)
    /\ ~enabled_features.geometryShader
    /\ Unbound(GEOMETRY)
    /\ msgs = <<>>

----------------------------------------------------------------------------
(* Properties of the aggregate linking checks of vkCreateShadersEXT *)

\* the descriptors without LinkStage whose stage is one of these
NonLinkedOf(stages) ==
    {i \in 1..Len(pCreateInfos) :
        "LINK_STAGE" \notin pCreateInfos[i].flags /\ pCreateInfos[i].stage \in stages}

\* the descriptors with LinkStage whose stage is one of these
LinkedOf(stages) ==
    {i \in 1..Len(pCreateInfos) :
        "LINK_STAGE" \in pCreateInfos[i].flags /\ pCreateInfos[i].stage \in stages}

\* C17: a creation batch is reported 08402 exactly once when it holds a
\* descriptor with LinkStage and a descriptor without LinkStage whose stage is
\* vertex, tess-control, tess-eval, geometry or fragment, and not at all
\* otherwise; it is reported 08403 exactly once when it holds a descriptor with
\* LinkStage and a descriptor without LinkStage whose stage is task or mesh,
\* and not at all otherwise.
C17_MixingOncePerChain ==
    Validated("CreateShaders") =>
        /\ CountMsgs(msgs, {8402})
              = One(/\ Linked(pCreateInfos) # {}
                    /\ NonLinkedOf({VERTEX, TESC, TESE, GEOMETRY, FRAGMENT}) # {})
        /\ CountMsgs(msgs, {8403})
              = One(/\ Linked(pCreateInfos) # {}
                    /\ NonLinkedOf({TASK, MESH}) # {})

\* a linked descriptor with a task and a mesh descriptor without LinkStage:
\* 08403 is reported once, 08402 is not
C17_Witness ==
    /\ Validated("CreateShaders")
    /\ Len(pCreateInfos) = 3
    /\ Cardinality(Linked(pCreateInfos)) = 1
    /\ NonLinkedOf({TASK}) # {}
    /\ NonLinkedOf({MESH}) # {}
    /\ CountMsgs(msgs, {8403}) = 1
    /\ CountMsgs(msgs, {8402}) = 0

\* C18: a creation batch is reported 08404 exactly when its descriptors with
\* LinkStage include a vertex descriptor and a task or a mesh descriptor; a
\* vertex, task or mesh descriptor without LinkStage does not count.
C18_LinkedVertexWithTaskMesh ==
    Validated("CreateShaders") =>
        CountMsgs(msgs, {8404})
            = One(LinkedOf({VERTEX}) # {} /\ LinkedOf({TASK, MESH}) # {})

\* a linked vertex descriptor with a linked mesh descriptor and a task
\* descriptor without LinkStage
C18_Witness ==
    /\ Validated("CreateShaders")
    /\ NonLinkedOf({TASK}) # {}
    /\ LinkedOf({VERTEX}) # {}
    /\ LinkedOf({MESH}) # {}
    /\ CountMsgs(msgs, {8404}) = 1

\* the linked mesh descriptors that carry NoTaskShader
LinkedNoTaskMesh ==
    {i \in LinkedOf({MESH}) : "NO_TASK_SHADER" \in pCreateInfos[i].flags}

\* C19: a creation batch is reported 08405 exactly when its descriptors with
\* LinkStage include a task descriptor and a mesh descriptor that carries
\* NoTaskShader; a linked task descriptor with a linked mesh descriptor
\* without NoTaskShader is not reported 08405.
C19_TaskWithNoTaskMesh ==
    Validated("CreateShaders") =>
        CountMsgs(msgs, {8405}) = One(LinkedOf({TASK}) # {} /\ LinkedNoTaskMesh # {})

\* the mesh descriptor with NoTaskShader comes first, the task one second
C19_Witness ==
    /\ Validated("CreateShaders")
    /\ Len(pCreateInfos) = 2
    /\ 1 \in LinkedNoTaskMesh
    /\ 2 \in LinkedOf({TASK})
    /\ CountMsgs(msgs, {8405}) = 1

----------------------------------------------------------------------------
(* Properties of a repeated validation of vkCreateShadersEXT *)

\* what a validation reads and what the model holds besides the messages
CreateInputs ==
    <<api, enabled_features, pCreateInfos, shader_objects, pStages, pShaders,
      queue_flags, last_bound, dynamic_rendering, function>>

----------------------------------------------------------------------------
(* Properties of the stages bound at a draw with no pipeline *)

\* the VUID of the missing-stage violation of each graphics stage
MissingStageVuid(stage) ==
    CASE stage = VERTEX -> 8684
      [] stage = TESC -> 8685
      [] stage = TESE -> 8686
      [] stage = GEOMETRY -> 8687
      [] stage = FRAGMENT -> 8688
      [] stage = TASK -> 8689
      [] stage = MESH -> 8690

MissingStageVuids == {MissingStageVuid(stage) : stage \in ShaderObjectStages \ {COMPUTE}}

\* the capability the stage's test depends on is enabled
StageCapabilityEnabled(stage) ==
    CASE stage \in {VERTEX, FRAGMENT} -> TRUE
      [] stage \in {TESC, TESE} -> enabled_features.tessellationShader
      [] stage = GEOMETRY -> enabled_features.geometryShader
      [] stage = TASK -> enabled_features.taskShader
      [] stage = MESH -> enabled_features.meshShader

\* C21: for the graphics bind point, each of the stages vertex, tess-control,
\* tess-eval, geometry, fragment, task and mesh is reported its missing-stage
\* violation exactly once when its capability is enabled (vertex and fragment
\* always) and its slot is Unbound, and not at all when the slot is ExplicitNull
\* or bound or the capability is disabled; so the number of these violations
\* is the number of such stages.
C21_MissingStagePerUnboundSlot ==
    (api = "DrawBoundShaders" /\ pc # "call") =>
        /\ \A stage \in ShaderObjectStages \ {COMPUTE} :
              CountMsgs(msgs, {MissingStageVuid(stage)})
                  = One(StageCapabilityEnabled(stage) /\ Unbound(stage))
        /\ CountMsgs(msgs, MissingStageVuids)
              = Cardinality({stage \in ShaderObjectStages \ {COMPUTE} :
                                StageCapabilityEnabled(stage) /\ Unbound(stage)})

\* tessellation is enabled with the tess-control slot Unbound and the
\* tess-eval slot ExplicitNull, the geometry feature is disabled with its slot
\* Unbound, the vertex shader is bound and the fragment slot is Unbound
C21_Witness ==
    /\ api = "DrawBoundShaders" /\ pc # "call"
    /\ enabled_features.tessellationShader
    /\ Unbound(TESC) /\ ExplicitNull(TESE)
    /\ ~enabled_features.geometryShader /\ Unbound(GEOMETRY)
    /\ ShaderBound(VERTEX) /\ Unbound(FRAGMENT)
    /\ ~enabled_features.taskShader /\ ~enabled_features.meshShader
    /\ CountMsgs(msgs, MissingStageVuids) = 2

----------------------------------------------------------------------------
(* Properties of the vertex and mesh shaders bound at a draw *)

\* C22: at draw time, with the task or the mesh capability enabled, 08693 is
\* reported exactly once when a vertex shader and a mesh shader are both bound
\* or neither is (a slot bound with no shader counting as not bound), and not
\* at all when exactly one of them is bound; with neither capability enabled
\* it is not reported.
C22_VertexXorMesh ==
    (api = "DrawBoundShaders" /\ pc # "call") =>
        CountMsgs(msgs, {8693})
            = One(/\ enabled_features.taskShader \/ enabled_features.meshShader
                  /\ ShaderBound(VERTEX) <=> ShaderBound(MESH))

\* only the task capability is enabled, the vertex slot is ExplicitNull and
\* the mesh slot was never bound: neither is bound, 08693 is reported
C22_Witness ==
    /\ api = "DrawBoundShaders" /\ pc # "call"
    /\ enabled_features.taskShader /\ ~enabled_features.meshShader
    /\ ExplicitNull(VERTEX) /\ Unbound(MESH)
    /\ CountMsgs(msgs, {8693}) = 1

----------------------------------------------------------------------------
(* Properties of the stage values of vkCmdBindShadersEXT *)

\* the illegal-stage violations: the aggregate values, the ray tracing
\* stages, the two HUAWEI stages
IllegalStageVuids == {8464, 8465, 8467, 8468}

\* the illegal-stage violations located at entry i
IllegalStageMsgsAt(i) ==
    {k \in 1..Len(msgs) : msgs[k].vuid \in IllegalStageVuids /\ msgs[k].loc = i}

AggregateStages == {ALL_GRAPHICS, ALL}
RayTracingStages == {RAYGEN, ANY_HIT, CLOSEST_HIT, MISS, INTERSECTION, CALLABLE}
VendorStages == {SUBPASS_SHADING_HUAWEI, CLUSTER_CULLING_HUAWEI}

\* C23: every entry of a bind call whose stage is all-graphics or all, one of
\* the six ray tracing stages or one of the two HUAWEI stages is reported an
\* illegal-stage violation (08464, 08465, 08467 or 08468) located at that
\* entry, and an entry whose stage is vertex, tess-control, tess-eval,
\* geometry, fragment, task, mesh or compute is reported none, whatever the
\* shaders and the other entries are.
C23_IllegalStagesReported ==
    Validated("BindShaders") =>
        \A i \in 1..Len(pStages) :
            /\ pStages[i] \in AggregateStages \cup RayTracingStages \cup VendorStages
                  => IllegalStageMsgsAt(i) # {}
            /\ pStages[i] \in ShaderObjectStages => IllegalStageMsgsAt(i) = {}

\* a callable-stage entry after a vertex entry: the callable entry is
\* reported 08465, the vertex entry nothing
C23_Witness ==
    /\ Validated("BindShaders")
    /\ pStages = <<VERTEX, CALLABLE>>
    /\ IllegalStageMsgsAt(1) = {}
    /\ \E k \in IllegalStageMsgsAt(2) : msgs[k].vuid = 8465

\* entry i names a shader that is not null and has state, created for another
\* stage than the entry's
CreatedForAnotherStage(i) ==
    /\ pShaders # <<>>
    /\ pShaders[i] # VK_NULL_HANDLE
    /\ pShaders[i] \in DOMAIN shader_objects
    /\ shader_objects[pShaders[i]].create_info.stage # pStages[i]

\* C24: every entry of a bind call is reported 08469, located at the entry,
\* exactly once when its shader is not null, resolves to a shader object and
\* that object was created for another stage than the entry names, and not at
\* all otherwise: not for a null shader, not for a call with no shader array,
\* not for a shader created for the named stage.
C24_StageMismatchPerEntry ==
    Validated("BindShaders") =>
        /\ \A i \in 1..Len(pStages) :
              Cardinality(MsgsAt(msgs, 8469, i)) = One(CreatedForAnotherStage(i))
        /\ CountMsgs(msgs, {8469})
              = Cardinality({i \in 1..Len(pStages) : CreatedForAnotherStage(i)})

\* the task shader named for the mesh stage and for the task stage: only the
\* first entry is reported
C24_Witness ==
    /\ Validated("BindShaders")
    /\ pStages = <<MESH, TASK>>
    /\ pShaders = <<2, 2>>
    /\ Cardinality(MsgsAt(msgs, 8469, 1)) = 1
    /\ MsgsAt(msgs, 8469, 2) = {}

----------------------------------------------------------------------------
(* Properties of the draw command used with task and mesh shaders *)

TaskOrMeshBound == TaskSlot \in BoundSlots \/ MeshSlot \in BoundSlots

\* C25: when the validation of a draw ends, a draw that is none of the six
\* vkCmdDrawMeshTasks* commands is reported 08885 exactly once if a task
\* shader or a mesh shader is bound and not at all if neither is; a
\* vkCmdDrawMeshTasks* command is never reported 08885.
C25_WrongDrawCall ==
    DrawEnded =>
        CountMsgs(msgs, {8885})
            = One(function \notin MeshTasksCommands /\ TaskOrMeshBound)

\* the same for the validations that return
C25_WhenReturned ==
    Validated("Draw") =>
        CountMsgs(msgs, {8885})
            = One(function \notin MeshTasksCommands /\ TaskOrMeshBound)

\* vkCmdDraw with the task shader and the vertex shader bound, the linked
\* fragment shader of the vertex shader destroyed: the validation ends at the
\* read of the stage of the missing shader, before ValidateDrawShaderObjectMesh
C25_FaultBeforeMeshCheck ==
    /\ api = "Draw"
    /\ pc = "fault"
    /\ function = "vkCmdDraw"
    /\ GetShader(last_bound, VertexSlot) = 1
    /\ TaskSlot \in BoundSlots
    /\ GetShaderObject(shader_objects, 2) = {}
    /\ ~HasMsg(msgs, 8885)

\* a plain draw that returns with a mesh shader bound and 08885 reported
C25_ReportedWhenReturned ==
    /\ Validated("Draw")
    /\ function = "vkCmdDrawIndexed"
    /\ MeshSlot \in BoundSlots
    /\ CountMsgs(msgs, {8885}) = 1

----------------------------------------------------------------------------
(* Properties of the duplicate stages of a creation batch *)

\* 08410 is reported for descriptor i with descriptor j
DuplicateLinkedReported(i, j) ==
    \E k \in 1..Len(msgs) : msgs[k].vuid = 8410 /\ msgs[k].loc = i /\ msgs[k].args = <<j>>

\* C27: 08410 is reported for two descriptors i < j of a creation batch with
\* the same stage only if both carry LinkStage; a descriptor with LinkStage
\* and one without that share a stage are not reported it, in either order.
C27_DuplicateNeedsBothLinked ==
    Validated("CreateShaders") =>
        \A i \in 1..Len(pCreateInfos), j \in 1..Len(pCreateInfos) :
            DuplicateLinkedReported(i, j)
                => /\ i < j
                   /\ pCreateInfos[i].stage = pCreateInfos[j].stage
                   /\ "LINK_STAGE" \in pCreateInfos[i].flags
                   /\ "LINK_STAGE" \in pCreateInfos[j].flags

\* what the code does: 08410 is reported for i < j with the same stage exactly
\* when descriptor i carries LinkStage, whatever descriptor j carries
C27_FirstLinkedOnly ==
    Validated("CreateShaders") =>
        \A i \in 1..Len(pCreateInfos), j \in 1..Len(pCreateInfos) :
            DuplicateLinkedReported(i, j)
                <=> /\ i < j
                    /\ pCreateInfos[i].stage = pCreateInfos[j].stage
                    /\ "LINK_STAGE" \in pCreateInfos[i].flags

\* a vertex descriptor with LinkStage followed by a vertex descriptor without:
\* 08410 is reported
C27_LinkedThenUnlinked ==
    /\ Validated("CreateShaders")
    /\ Len(pCreateInfos) = 2
    /\ pCreateInfos[1].stage = VERTEX /\ pCreateInfos[2].stage = VERTEX
    /\ "LINK_STAGE" \in pCreateInfos[1].flags
    /\ "LINK_STAGE" \notin pCreateInfos[2].flags
    /\ DuplicateLinkedReported(1, 2)

\* the same two descriptors in the other order: 08410 is not reported
C27_UnlinkedThenLinked ==
    /\ Validated("CreateShaders")
    /\ Len(pCreateInfos) = 2
    /\ pCreateInfos[1].stage = VERTEX /\ pCreateInfos[2].stage = VERTEX
    /\ "LINK_STAGE" \notin pCreateInfos[1].flags
    /\ "LINK_STAGE" \in pCreateInfos[2].flags
    /\ ~HasMsg(msgs, 8410)

----------------------------------------------------------------------------
(* Properties of nextStage under disabled features *)

\* C29: with the tessellation feature disabled, every descriptor whose
\* nextStage includes the tess-control or the tess-eval bit is reported 08428,
\* and with the geometry feature disabled every descriptor whose nextStage
\* includes the geometry bit is reported 08429, also when nextStage has other
\* bits set.
C29_NextStageIncludesDisabled ==
    Validated("CreateShaders") =>
        \A i \in 1..Len(pCreateInfos) :
            /\ (~enabled_features.tessellationShader
                    /\ pCreateInfos[i].nextStage \cap (TESC \cup TESE) # {})
                  => MsgsAt(msgs, 8428, i) # {}
            /\ (~enabled_features.geometryShader
                    /\ pCreateInfos[i].nextStage \cap GEOMETRY # {})
                  => MsgsAt(msgs, 8429, i) # {}

\* what the code does: 08428 and 08429 are reported exactly when nextStage is
\* the tess-control or the tess-eval bit alone, or the geometry bit alone
C29_NextStageEqualsDisabled ==
    Validated("CreateShaders") =>
        \A i \in 1..Len(pCreateInfos) :
            /\ Cardinality(MsgsAt(msgs, 8428, i))
                  = One(~enabled_features.tessellationShader
                        /\ pCreateInfos[i].nextStage \in {TESC, TESE})
            /\ Cardinality(MsgsAt(msgs, 8429, i))
                  = One(~enabled_features.geometryShader
                        /\ pCreateInfos[i].nextStage = GEOMETRY)

\* a tess-eval descriptor with nextStage geometry | fragment and the geometry
\* feature disabled: 08429 is not reported
C29_GeometryWithFragment ==
    /\ Validated("CreateShaders")
    /\ ~enabled_features.geometryShader
    /\ pCreateInfos[1].stage = TESE
    /\ pCreateInfos[1].nextStage = GEOMETRY \cup FRAGMENT
    /\ ~HasMsg(msgs, 8429)

\* the same descriptor with nextStage geometry alone: 08429 is reported
C29_GeometryAlone ==
    /\ Validated("CreateShaders")
    /\ ~enabled_features.geometryShader
    /\ pCreateInfos[1].stage = TESE
    /\ pCreateInfos[1].nextStage = GEOMETRY
    /\ Cardinality(MsgsAt(msgs, 8429, 1)) = 1

----------------------------------------------------------------------------
(* Properties of the debug labels *)

\* the map of the run: that of the queues or that of the command buffers
LabelMap == IF api = "QueueLabels" THEN debugUtilsQueueLabels ELSE debugUtilsCmdBufLabels

\* the queue or the command buffer of the run
LabelKey == IF api = "QueueLabels" THEN TheQueue ELSE TheCommandBuffer

\* the queue or command buffer of the run has a label state; that state
HasLabelState == api \in {"QueueLabels", "CmdBufLabels"} /\ LabelKey \in DOMAIN LabelMap
LabelStateNow == LabelMap[LabelKey]

\* the labels and the insert label of the run, those of a new state when the
\* queue or command buffer has none
LabelsNow == IF HasLabelState THEN LabelStateNow.labels ELSE <<>>
InsertLabelNow == IF HasLabelState THEN LabelStateNow.insert_label ELSE EmptyLabel

\* the array in the opposite order
Reversed(array) == [k \in 1..Len(array) |-> array[Len(array) - k + 1]]

\* the labels most recent first: the insert label when it is not empty, which
\* is newer than every label of the stack (Begin and End reset it), then the
\* labels of the stack from the last begun to the first
MostRecentFirst ==
    (IF Empty(InsertLabelNow) THEN <<>> ELSE <<ExportLabel(InsertLabelNow)>>)
    \o Reversed([k \in 1..Len(LabelsNow) |-> ExportLabel(LabelsNow[k])])

\* C28: Export returns one entry per label of the stack, plus one for the
\* insert label when it is not empty, the most recent first: the insert
\* label, then the labels of the stack from the last begun to the first.
C28_ExportMostRecentFirst ==
    HasLabelState => Export(LabelStateNow) = MostRecentFirst

\* what the code does: the same entries, the labels of the stack from the
\* last begun to the first and the insert label after them
C28_ExportInsertLast ==
    HasLabelState =>
        Export(LabelStateNow)
            = Reversed([k \in 1..Len(LabelsNow) |-> ExportLabel(LabelsNow[k])])
              \o (IF Empty(InsertLabelNow) THEN <<>> ELSE <<ExportLabel(InsertLabelNow)>>)

\* label "a" was begun, then label "b" inserted: the export is a, b
C28_InsertedAfterBegun ==
    /\ HasLabelState
    /\ Len(label_calls) = 2
    /\ label_calls[1].op = "Begin" /\ label_calls[2].op = "Insert"
    /\ Export(LabelStateNow)
          = <<[pLabelName |-> "a", color |-> <<1, 0, 0, 1>>],
              [pLabelName |-> "b", color |-> <<0, 0, 1, 1>>]>>

\* the label_info names a label: neither it nor its name is null
NamesLabel(label_info) == label_info # {} /\ (\A info \in label_info : info.pLabelName # {})

NameOf(label_info) == CHOOSE n \in (CHOOSE info \in label_info : TRUE).pLabelName : TRUE

\* the names begun and not yet ended after the calls, in Begin order: a Begin
\* that names a label adds it, an End removes the last one if there is one
RECURSIVE BegunNotEnded(_)
BegunNotEnded(calls) ==
    IF calls = <<>> THEN <<>>
    ELSE LET before == BegunNotEnded(SubSeq(calls, 1, Len(calls) - 1))
             call == calls[Len(calls)]
         IN  IF call.op = "Begin" /\ NamesLabel(call.label_info)
             THEN Append(before, NameOf(call.label_info))
             ELSE IF call.op = "End" /\ before # <<>>
             THEN SubSeq(before, 1, Len(before) - 1)
             ELSE before

\* the calls were Begin, End and Insert only
OnlyBeginEndInsert == \A k \in 1..Len(label_calls) : label_calls[k].op # "Reset"

\* the calls that changed the map
ChangingCalls == {k \in 1..Len(label_calls) : label_calls[k].changed}

\* C30: after any sequence of Begin, End and Insert calls on one queue or
\* one command buffer, the labels of the stack are those begun with a name
\* that is not null and not yet ended, in Begin order; the queue or command
\* buffer has a label state only if some call was an Insert or a Begin that
\* names a label, so an End creates none; a Begin with a null label or a null
\* name changes nothing; and the insert label is not empty only if the last
\* call that changed the state was an Insert with a name that is not empty.
C30_LabelStateFollowsCalls ==
    (api \in {"QueueLabels", "CmdBufLabels"} /\ OnlyBeginEndInsert) =>
        /\ [k \in 1..Len(LabelsNow) |-> LabelsNow[k].name] = BegunNotEnded(label_calls)
        /\ HasLabelState
              <=> \E k \in 1..Len(label_calls) :
                      \/ label_calls[k].op = "Insert"
                      \/ label_calls[k].op = "Begin" /\ NamesLabel(label_calls[k].label_info)
        /\ \A k \in 1..Len(label_calls) :
              (label_calls[k].op = "Begin" /\ ~NamesLabel(label_calls[k].label_info))
                  => ~label_calls[k].changed
        /\ ~Empty(InsertLabelNow)
              => /\ ChangingCalls # {}
                 /\ LET last == CHOOSE k \in ChangingCalls : \A m \in ChangingCalls : m <= k
                    IN  /\ label_calls[last].op = "Insert"
                        /\ NamesLabel(label_calls[last].label_info)
                        /\ NameOf(label_calls[last].label_info) # ""

\* Begin a, Begin b, End, then Insert b: the stack holds a and the insert
\* label is b
C30_Witness ==
    /\ api = "CmdBufLabels"
    /\ OnlyBeginEndInsert
    /\ Len(label_calls) = 4
    /\ label_calls[3].op = "End" /\ label_calls[4].op = "Insert"
    /\ LabelsNow = <<[name |-> "a", color |-> <<1, 0, 0, 1>>]>>
    /\ InsertLabelNow.name = "b"

----------------------------------------------------------------------------
(* Properties of the reports of one validation *)

\* the stages of the chain with a missing intermediate stage after them
BrokenAdjacencies == {g \in 1..Len(graphicsStages) : MissingIntermediate(g)}

\* the bound shaders, the compute shader apart, with a linked shader that is
\* not bound
BrokenLinks ==
    {i \in BoundSlots \ {VkShaderStageToShaderObjectStage(COMPUTE)} : LinkBroken(i)}

\* the stages for which 08698 was reported
ReportedLinks == {msgs[k].args[1] : k \in {n \in 1..Len(msgs) : msgs[n].vuid = 8698}}

\* C26: the validation of a draw does not stop at the first violation: when
\* it ends, 08698 is reported for every bound shader with a linked shader that
\* is not bound and for no other, and 08699 is reported once for each stage of
\* the chain with a missing intermediate stage after it, not only for the
\* first one.
C26_EveryViolationReported ==
    DrawEnded =>
        /\ ReportedLinks = BrokenLinks
        /\ CountMsgs(msgs, {8699}) = Cardinality(BrokenAdjacencies)

\* what the code does when the validation returns: every broken link is
\* reported, and of the broken adjacencies the first one only
C26_WhenReturned ==
    Validated("Draw") =>
        /\ ReportedLinks = BrokenLinks
        /\ CountMsgs(msgs, {8699}) = (IF BrokenAdjacencies = {} THEN 0 ELSE 1)

\* vertex (nextStage tess-eval), tess-eval (nextStage fragment) and fragment
\* were linked and all three are bound, with a tess-control and a geometry
\* shader that are not linked between them: two adjacencies are broken and
\* 08699 is reported once, the walk ending at the first
C26_SecondAdjacencyNotReported ==
    /\ Validated("Draw")
    /\ last_bound.shader_object_states
          = <<1, UnlinkedHandle(2), 3, UnlinkedHandle(4), 5, VK_NULL_HANDLE,
              VK_NULL_HANDLE, VK_NULL_HANDLE>>
    /\ BrokenAdjacencies = {1, 3}
    /\ CountMsgs(msgs, {8699}) = 1

\* vertex, geometry and fragment were linked and the fragment shader was
\* destroyed; vertex and geometry are bound: the validation ends at the
\* missing shader of the vertex shader, and neither the vertex nor the
\* geometry shader is reported
C26_FaultBeforeSecondShader ==
    /\ api = "Draw"
    /\ pc = "fault"
    /\ last_bound.shader_object_states
          = <<1, VK_NULL_HANDLE, VK_NULL_HANDLE, 4, VK_NULL_HANDLE, VK_NULL_HANDLE,
              VK_NULL_HANDLE, VK_NULL_HANDLE>>
    /\ GetShaderObject(shader_objects, 5) = {}
    /\ BrokenLinks = {1, 4}
    /\ ReportedLinks = {}

====
